---- MODULE Spec2Model ----
(***************************************************************************)
(* A model of the cs6120 middle-end passes: basic-block formation and CFG  *)
(* construction (cfg.py), dominance (dom.py), the worklist data-flow       *)
(* solver (df.py with defined.py, live.py, cprop.py) and SSA construction  *)
(* (ssa.py).                                                               *)
(*                                                                         *)
(* An instruction is a record with the same fields for every shape; a      *)
(* field the Python dict does not have holds None (strings) or <<>>        *)
(* (lists).  A label marker is an instruction without "op".                *)
(* An OrderedDict / dict is a sequence of [k, v] records with distinct     *)
(* keys, in insertion order.                                               *)
(***************************************************************************)
EXTENDS Integers, Sequences, FiniteSets, TLC

VARIABLES
    pc,             \* position in the pass being run
    instrs,         \* the instruction list handed to ControlFlowGraph(...)
    round,          \* 1: first construction, 2: construction from flatten()
    first,          \* the CFG of round 1, kept for the round trip
    blocks,         \* ControlFlowGraph._blocks        (OrderedDict name -> Block)
    successors,     \* ControlFlowGraph._successors    (dict name -> [name])
    predecessors,   \* ControlFlowGraph._predecessors  (dict name -> [name])
    dom,            \* result of get_dom   (name -> set of names)
    tree,           \* result of dom_tree  (name -> sorted list of names)
    front,          \* result of dom_front (name -> sorted list of names)
    analysis,       \* DataFlowSolver._analysis
    worklist,       \* _solve: the deque of block names
    ins,            \* _solve: ins  (name -> flow value)
    outs,           \* _solve: outs (name -> flow value)
    func_args,      \* to_ssa: the names of the function's arguments
    ssa_vars,       \* to_ssa: vars, the variables that have a definition
    unrenamed,      \* the blocks as insert_phi_nodes left them
    stack,          \* rename_variable: stack (variable -> list of names)
    num,            \* rename_variable: num   (variable -> next suffix)
    frames,         \* the call stack of rename_recur
    at_end,         \* block -> stack as it was after the block's instructions
    source,         \* the function as it was handed to the pass
    defs_to_add,    \* out_ssa: (pred, succ) -> list of Def(dest, src)
    table,          \* lvn: the tables of the block being numbered
    passes,         \* tdce main: the passes that are still to run
    leftmost        \* _solve: every pop so far took the leftmost block

cfgVars == <<blocks, successors, predecessors>>
domVars == <<dom, tree, front>>
dfVars == <<analysis, worklist, ins, outs>>
ssaVars == <<func_args, ssa_vars, unrenamed, stack, num, frames, at_end>>
outVars == <<source, defs_to_add>>
optVars == <<table, passes, leftmost>>
vars == <<pc, instrs, round, first, blocks, successors, predecessors,
          dom, tree, front, analysis, worklist, ins, outs,
          func_args, ssa_vars, unrenamed, stack, num, frames, at_end,
          source, defs_to_add, table, passes, leftmost>>

-----------------------------------------------------------------------------
(* Bounds of the model.                                                    *)

MaxLen == 4          \* longest instruction list of the CFG specification
DomBlocks == 4       \* most blocks of a function of the dominance specification
DfBlocks == 3        \* most blocks of a function of the data-flow specification
SsaBlocks == 3       \* most blocks of a function of the SSA specification
MaxWork == 12        \* longest worklist the data-flow specification follows
OutBlocks == 3       \* most blocks of a function of the round-trip specification
Fuel == 12           \* most instructions an execution is followed for
LvnLen == 4          \* longest instruction list of the value-numbering specification
TdceLen == 4         \* longest instruction list of the dead-code specification
MaxPops == 40       \* most pops the reference run of the solver is followed for

-----------------------------------------------------------------------------
(* Instructions.                                                           *)

None == ""

NoValue == [t |-> "none", n |-> 0]

Instr(op, label, dest, args, labels, value) ==
    [op |-> op, label |-> label, dest |-> dest, args |-> args,
     labels |-> labels, value |-> value, funcs |-> <<>>]

Label(l)        == Instr(None, l, None, <<>>, <<>>, NoValue)
Jmp(l)          == Instr("jmp", None, None, <<>>, <<l>>, NoValue)
Br(c, l1, l2)   == Instr("br", None, None, <<c>>, <<l1, l2>>, NoValue)
Ret             == Instr("ret", None, None, <<>>, <<>>, NoValue)
Const(d, v)     == Instr("const", None, d, <<>>, <<>>, v)
Op(op, d, args) == Instr(op, None, d, args, <<>>, NoValue)
Call(d, f, args) == [Op("call", d, args) EXCEPT !.funcs = <<f>>]
IntV(n)         == [t |-> "int", n |-> n]

TERMINATORS == {"jmp", "br", "ret"}

is_label(instr) == instr.op = None

-----------------------------------------------------------------------------
(* Ordered dictionaries.                                                   *)

Range(s) == {s[i] : i \in 1..Len(s)}

OdKeys(d) == [i \in 1..Len(d) |-> d[i].k]

OdHas(d, k) == \E i \in 1..Len(d) : d[i].k = k

OdGet(d, k) == d[CHOOSE i \in 1..Len(d) : d[i].k = k].v

OdPut(d, k, v) ==
    IF OdHas(d, k)
    THEN [i \in 1..Len(d) |-> IF d[i].k = k THEN [k |-> k, v |-> v] ELSE d[i]]
    ELSE Append(d, [k |-> k, v |-> v])

OdMoveToFront(d, k) ==
    <<[k |-> k, v |-> OdGet(d, k)]>> \o SelectSeq(d, LAMBDA e : e.k # k)

-----------------------------------------------------------------------------
(* cfg.py: block formation.                                                *)

RECURSIVE form_blocks_from(_, _, _, _)
form_blocks_from(body, i, cur_block, out) ==
    IF i > Len(body)
    THEN IF cur_block # <<>> THEN Append(out, cur_block) ELSE out
    ELSE LET instr == body[i] IN
         IF ~is_label(instr)
         THEN IF instr.op \in TERMINATORS
              THEN form_blocks_from(body, i + 1, <<>>,
                                    Append(out, Append(cur_block, instr)))
              ELSE form_blocks_from(body, i + 1, Append(cur_block, instr), out)
         ELSE form_blocks_from(body, i + 1, <<instr>>,
                               IF cur_block # <<>> THEN Append(out, cur_block)
                                                   ELSE out)

form_blocks(body) == form_blocks_from(body, 1, <<>>, <<>>)

add_terminators(bs) ==
    [i \in 1..Len(bs) |->
        LET block == bs[i].v IN
        IF block = <<>> \/ block[Len(block)].op \notin TERMINATORS
        THEN IF i = Len(bs)
             THEN [k |-> bs[i].k, v |-> Append(block, Ret)]
             ELSE [k |-> bs[i].k, v |-> Append(block, Jmp(bs[i + 1].k))]
        ELSE bs[i]]

RECURSIVE name_blocks_from(_, _, _, _)
name_blocks_from(bs, i, next_label_number, name_to_block) ==
    IF i > Len(bs)
    THEN name_to_block
    ELSE LET block == bs[i] IN
         IF block[1].label # None
         THEN name_blocks_from(bs, i + 1, next_label_number,
                               OdPut(name_to_block, block[1].label, Tail(block)))
         ELSE name_blocks_from(bs, i + 1, next_label_number + 1,
                               OdPut(name_to_block,
                                     "b" \o ToString(next_label_number), block))

name_blocks(bs) == add_terminators(name_blocks_from(bs, 1, 0, <<>>))

-----------------------------------------------------------------------------
(* cfg.py: successors, predecessors, the synthetic entry, flatten.         *)

get_cfg(name_to_block) ==
    [i \in 1..Len(name_to_block) |->
        LET block == name_to_block[i].v
            last  == block[Len(block)]
        IN  [k |-> name_to_block[i].k,
             v |-> IF last.op \in {"jmp", "br"} THEN last.labels
                   ELSE IF last.op = "ret" THEN <<>>
                   ELSE IF i = Len(name_to_block) THEN <<>>
                   ELSE <<name_to_block[i + 1].k>>]]

find_predecessors(name2successors) ==
    [i \in 1..Len(name2successors) |->
        [k |-> name2successors[i].k,
         v |-> OdKeys(SelectSeq(name2successors,
                   LAMBDA e : name2successors[i].k \in Range(e.v)))]]

entry_of(bs) == bs[1].k

BlockNamesOf(bs) == Range(OdKeys(bs))

SyntheticEntry == "entry.1"

\* _add_entry, as a function of the three maps; returns the three new maps.
add_entry(bs, succ, pred) ==
    IF OdGet(pred, entry_of(bs)) = <<>>
    THEN [blocks |-> bs, successors |-> succ, predecessors |-> pred]
    ELSE LET entry    == entry_of(bs)
             blk_name == SyntheticEntry
             pred1    == OdPut(pred, blk_name, <<>>)
             succ1    == OdPut(succ, blk_name, <<entry>>)
             pred2    == OdPut(pred1, entry,
                               Append(OdGet(pred1, entry), blk_name))
             bs1      == OdPut(bs, blk_name, <<Jmp(entry)>>)
         IN  [blocks       |-> OdMoveToFront(bs1, blk_name),
              successors   |-> succ1,
              predecessors |-> pred2]

RECURSIVE flatten_from(_, _)
flatten_from(bs, i) ==
    IF i > Len(bs) THEN <<>>
    ELSE <<Label(bs[i].k)>> \o bs[i].v \o flatten_from(bs, i + 1)

flatten(bs) == flatten_from(bs, 1)

-----------------------------------------------------------------------------
(* Inputs of the CFG specification: every instruction list of at most      *)
(* MaxLen records over a small alphabet, labels pairwise distinct.         *)

CfgLabels == {"b0", "entry.1"}

CfgAlphabet ==
    {Label(l) : l \in CfgLabels} \cup {Jmp(l) : l \in CfgLabels}
    \cup {Br("x", l1, l2) : l1 \in CfgLabels, l2 \in CfgLabels}
    \cup {Ret, Const("x", IntV(1))}

SeqsUpTo(S, n) == UNION {[1..m -> S] : m \in 0..n}

DistinctLabels(body) ==
    \A i, j \in 1..Len(body) :
        (i # j /\ is_label(body[i]) /\ is_label(body[j]))
            => body[i].label # body[j].label

\* Every jmp and br names labels that the list defines.
TargetsDefined(body) ==
    \A i \in 1..Len(body) :
        \A l \in Range(body[i].labels) :
            \E j \in 1..Len(body) : is_label(body[j]) /\ body[j].label = l

WellFormed(body) == DistinctLabels(body) /\ TargetsDefined(body)

NoCfg == <<>>

InitCfg ==
    /\ instrs \in {b \in SeqsUpTo(CfgAlphabet, MaxLen) : WellFormed(b)}
    /\ pc = "start"
    /\ round = 1
    /\ first = [blocks |-> NoCfg, successors |-> NoCfg]
    /\ blocks = NoCfg
    /\ successors = NoCfg
    /\ predecessors = NoCfg
    /\ dom = NoCfg /\ tree = NoCfg /\ front = NoCfg
    /\ analysis = None /\ worklist = <<>> /\ ins = NoCfg /\ outs = NoCfg
    /\ func_args = <<>> /\ ssa_vars = <<>> /\ unrenamed = NoCfg
    /\ stack = <<>> /\ num = <<>> /\ frames = <<>> /\ at_end = <<>>
    /\ source = <<>> /\ defs_to_add = <<>>
    /\ table = <<>> /\ passes = <<>> /\ leftmost = TRUE

\* ControlFlowGraph.__init__, first statement: the named blocks.
NameBlocks ==
    /\ pc = "start"
    /\ blocks' = name_blocks(form_blocks(instrs))
    /\ pc' = "named"
    /\ UNCHANGED <<optVars, outVars, instrs, round, first, successors, predecessors, domVars, dfVars, ssaVars>>

\* ControlFlowGraph.__init__, the rest: successors, predecessors, entry.
\* With no block at all, self.entry raises IndexError.
BuildCfg ==
    /\ pc = "named"
    /\ IF blocks = <<>>
       THEN /\ pc' = "error"
            /\ successors' = get_cfg(blocks)
            /\ predecessors' = find_predecessors(successors')
            /\ UNCHANGED blocks
       ELSE \E succ \in {get_cfg(blocks)} :
            \E pred \in {find_predecessors(succ)} :
            \E r \in {add_entry(blocks, succ, pred)} :
                /\ blocks' = r.blocks
                /\ successors' = r.successors
                /\ predecessors' = r.predecessors
                /\ pc' = "built"
    /\ UNCHANGED <<optVars, outVars, instrs, round, first, domVars, dfVars, ssaVars>>

\* flatten() of the first CFG, handed to a second ControlFlowGraph(...).
Flatten ==
    /\ pc = "built"
    /\ round = 1
    /\ first' = [blocks |-> blocks, successors |-> successors]
    /\ instrs' = flatten(blocks)
    /\ round' = 2
    /\ pc' = "start"
    /\ UNCHANGED <<optVars, outVars, cfgVars, domVars, dfVars, ssaVars>>

NextCfg == NameBlocks \/ BuildCfg \/ Flatten

SpecCfg == InitCfg /\ [][NextCfg]_vars

-----------------------------------------------------------------------------
(* Generated functions: a few labelled blocks, each with a body            *)
(* and a way to end: fall through, ret, jmp or br.  One block may carry    *)
(* the label entry.1.                                                      *)

GenLabels == <<"entry", "a", "b", "c", "d">>

\* Python's sorted() on the names that occur: ascending code-point order.
SortedNames == <<"a", "b", "c", "d", "entry", "entry.1">>

RECURSIVE sorted_from(_, _)
sorted_from(list, r) ==
    IF r > Len(SortedNames) THEN <<>>
    ELSE SelectSeq(list, LAMBDA x : x = SortedNames[r]) \o sorted_from(list, r + 1)

sorted(list) == sorted_from(list, 1)

GenLabel(i, alt) == IF i = alt THEN SyntheticEntry ELSE GenLabels[i]

Ends(n) ==
    {<<"fall">>, <<"ret">>} \cup {<<"jmp", j>> : j \in 1..n}
    \cup {<<"br", j, k>> : j \in 1..n, k \in 1..n}

EndInstr(e, alt) ==
    IF e[1] = "ret" THEN <<Ret>>
    ELSE IF e[1] = "jmp" THEN <<Jmp(GenLabel(e[2], alt))>>
    ELSE IF e[1] = "br" THEN <<Br("x", GenLabel(e[2], alt), GenLabel(e[3], alt))>>
    ELSE <<>>

RECURSIVE gen_from(_, _, _, _)
gen_from(bodies, ends, alt, i) ==
    IF i > Len(ends) THEN <<>>
    ELSE <<Label(GenLabel(i, alt))>> \o bodies[i] \o EndInstr(ends[i], alt)
         \o gen_from(bodies, ends, alt, i + 1)

GenFunction(bodies, ends, alt) == gen_from(bodies, ends, alt, 1)

DomEnds(n) == {e \in Ends(n) : e[1] = "br" => e[2] < e[3]}

\* The diamond entry->a, entry->b, a->c, b->c.
DiamondEnds == <<<<"br", 2, 3>>, <<"jmp", 4>>, <<"jmp", 4>>, <<"ret">>>>

Diamond == GenFunction([i \in 1..4 |-> <<>>], DiamondEnds, 0)

InitDom ==
    /\ \/ \E n \in 1..DomBlocks : \E ends \in [1..n -> DomEnds(n)] :
          \E alt \in 0..2 :
              instrs = GenFunction([i \in 1..n |-> <<>>], ends, alt)
       \/ instrs = Diamond
    /\ pc = "start"
    /\ round = 1
    /\ first = [blocks |-> NoCfg, successors |-> NoCfg]
    /\ blocks = NoCfg
    /\ successors = NoCfg
    /\ predecessors = NoCfg
    /\ dom = NoCfg /\ tree = NoCfg /\ front = NoCfg
    /\ analysis = None /\ worklist = <<>> /\ ins = NoCfg /\ outs = NoCfg
    /\ func_args = <<>> /\ ssa_vars = <<>> /\ unrenamed = NoCfg
    /\ stack = <<>> /\ num = <<>> /\ frames = <<>> /\ at_end = <<>>
    /\ source = <<>> /\ defs_to_add = <<>>
    /\ table = <<>> /\ passes = <<>> /\ leftmost = TRUE

-----------------------------------------------------------------------------
(* ControlFlowGraph.remove_unreachable_blocks: keep the blocks reachable    *)
(* from the entry along successors, and derive the predecessors again.     *)

RECURSIVE reach_from(_, _)
reach_from(succ, seen) ==
    LET more == {m \in UNION {Range(OdGet(succ, n)) : n \in seen} :
                    OdHas(succ, m)} \ seen
    IN  IF more = {} THEN seen ELSE reach_from(succ, seen \cup more)

remove_unreachable_blocks(bs, succ) ==
    LET reachable == reach_from(succ, {entry_of(bs)})
        succ1     == SelectSeq(succ, LAMBDA e : e.k \in reachable)
    IN  [blocks       |-> SelectSeq(bs, LAMBDA e : e.k \in reachable),
         successors   |-> succ1,
         predecessors |-> find_predecessors(succ1)]

RemoveUnreachable ==
    /\ pc = "built"
    /\ \E r \in {remove_unreachable_blocks(blocks, successors)} :
           /\ blocks' = r.blocks
           /\ successors' = r.successors
           /\ predecessors' = r.predecessors
    /\ pc' = "pruned"
    /\ UNCHANGED <<optVars, outVars, instrs, round, first, domVars, dfVars, ssaVars>>

-----------------------------------------------------------------------------
(* dom.py                                                                  *)

RECURSIVE dom_pass(_, _, _, _, _)
dom_pass(d, worklist_, pred, i, changed) ==
    IF i > Len(worklist_) THEN [dom |-> d, changed |-> changed]
    ELSE LET vertex == worklist_[i]
             ps     == OdGet(pred, vertex)
         IN  IF ps = <<>>
             THEN dom_pass(d, worklist_, pred, i + 1, changed)
             ELSE LET new_dom == {vertex} \cup
                          {x \in d[ps[1]] : \A j \in 1..Len(ps) : x \in d[ps[j]]}
                  IN  IF new_dom # d[vertex]
                      THEN dom_pass([d EXCEPT ![vertex] = new_dom],
                                    worklist_, pred, i + 1, TRUE)
                      ELSE dom_pass(d, worklist_, pred, i + 1, changed)

RECURSIVE dom_loop(_, _, _)
dom_single_pass(d, worklist_, pred) == dom_pass(d, worklist_, pred, 1, FALSE).dom

dom_loop(d, worklist_, pred) ==
    LET r == dom_pass(d, worklist_, pred, 1, FALSE)
    IN  IF r.changed THEN dom_loop(r.dom, worklist_, pred) ELSE r.dom

get_dom(bs, pred) ==
    LET names    == OdKeys(bs)
        entry    == names[1]
        worklist_ == SelectSeq(names, LAMBDA n : n # entry)
        d0       == [b \in Range(names) |->
                        IF b = entry THEN {entry} ELSE Range(names)]
    IN  dom_loop(d0, worklist_, pred)

\* The blocks intermediate_dominator_of may return for y (it returns the
\* first one its iteration over a set meets); none: it returns None.
idom_by_dominating(d, y) ==
    {x \in d[y] \ {y} : \A xx \in d[y] \ {y} : x \in d[xx]}

intermediate_dominator_of(d, y) ==
    {x \in d[y] \ {y} : \A xx \in d[y] \ {y} : xx \in d[x]}

\* dom_tree for one choice idom[b] of the immediate dominator of each b.
dom_tree_of(names, idom) ==
    [p \in Range(names) |->
        sorted(SelectSeq(names, LAMBDA b : idom[b] = p))]

IdomChoices(names, d) ==
    {idom \in [Range(names) -> Range(names) \cup {None}] :
        \A b \in Range(names) :
            IF intermediate_dominator_of(d, b) = {}
            THEN idom[b] = None
            ELSE idom[b] \in intermediate_dominator_of(d, b)}

dom_front_of(bs, pred, d) ==
    LET names == OdKeys(bs)
        \* the (c, b) pairs in the order of the two outer loops
        hits(a) == [i \in 1..Len(names) |->
                      LET c == names[i] IN
                      SelectSeq(OdGet(pred, c),
                                LAMBDA b : a \in d[b] /\ (a \notin d[c] \/ a = c))]
        RECURSIVE appended(_, _)
        appended(a, i) ==
            IF i > Len(names) THEN <<>>
            ELSE [j \in 1..Len(hits(a)[i]) |-> names[i]] \o appended(a, i + 1)
    IN  [a \in Range(names) |-> sorted(appended(a, 1))]

dom_front(bs, pred) ==
    CHOOSE f \in {dom_front_of(bs, pred, d) : d \in {get_dom(bs, pred)}} : TRUE

GetDom ==
    /\ pc = "pruned"
    /\ dom' = get_dom(blocks, predecessors)
    /\ pc' = "dom"
    /\ UNCHANGED <<optVars, outVars, instrs, round, first, cfgVars, tree, front, dfVars, ssaVars>>

\* The trees dom_tree may return: one for each way its calls of
\* intermediate_dominator_of may choose.
dom_trees_of(names, d, cands) ==
    IF \A b \in Range(names) : Cardinality(cands[b]) <= 1
    THEN {dom_tree_of(names,
              [b \in Range(names) |->
                  IF cands[b] = {} THEN None
                  ELSE CHOOSE x \in cands[b] : TRUE])}
    ELSE {dom_tree_of(names, idom) : idom \in IdomChoices(names, d)}

dom_tree(bs, pred) ==
    UNION {UNION {dom_trees_of(OdKeys(bs), d, cands) :
                     cands \in {[b \in BlockNamesOf(bs) |->
                                   intermediate_dominator_of(d, b)]}} :
              d \in {get_dom(bs, pred)}}

DomTree ==
    /\ pc = "dom"
    /\ tree' \in dom_tree(blocks, predecessors)
    /\ pc' = "tree"
    /\ UNCHANGED <<optVars, outVars, instrs, round, first, cfgVars, dom, front, dfVars, ssaVars>>

DomFront ==
    /\ pc = "tree"
    /\ front' = dom_front(blocks, predecessors)
    /\ pc' = "front"
    /\ UNCHANGED <<optVars, outVars, instrs, round, first, cfgVars, dom, tree, dfVars, ssaVars>>

NextDom ==
    NameBlocks \/ BuildCfg \/ RemoveUnreachable \/ GetDom \/ DomTree \/ DomFront

SpecDom == InitDom /\ [][NextDom]_vars

-----------------------------------------------------------------------------
(* Values held by variables: Python ints and bools, the string "?" that   *)
(* cprop uses for UNKNOWN, and two markers: a key that a dict lacks and   *)
(* Python's None.                                                          *)

BoolV(b) == [t |-> "bool", n |-> IF b THEN 1 ELSE 0]

UNKNOWN == [t |-> "str", n |-> 0]

Absent == [t |-> "absent", n |-> 0]

\* Python's == on values: True == 1 and False == 0.
PyEq(a, b) == a.n = b.n /\ (a.t = b.t \/ {a.t, b.t} \subseteq {"int", "bool"})

\* Python's // : the floor of the quotient, for a divisor of either sign.
floordiv(a, b) == IF b > 0 THEN a \div b ELSE (0 - a) \div (0 - b)

\* Python's & and | on ints (two's complement of unbounded width).
RECURSIVE and_(_, _)
and_(a, b) ==
    IF a = 0 \/ b = 0 THEN 0
    ELSE IF a = -1 THEN b
    ELSE IF b = -1 THEN a
    ELSE 2 * and_(a \div 2, b \div 2) + (a % 2) * (b % 2)

RECURSIVE or_(_, _)
or_(a, b) ==
    IF a = 0 THEN b
    ELSE IF b = 0 THEN a
    ELSE IF a = -1 \/ b = -1 THEN -1
    ELSE 2 * or_(a \div 2, b \div 2)
         + (IF a % 2 = 1 \/ b % 2 = 1 THEN 1 ELSE 0)

\* EVAL_OPS[op](*vals) on constant values.
EVAL_OPS(op, vals) ==
    LET a == vals[1].n
        b == vals[2].n
        bools == \A i \in 1..Len(vals) : vals[i].t = "bool"
    IN  IF op = "add" THEN IntV(a + b)
        ELSE IF op = "mul" THEN IntV(a * b)
        ELSE IF op = "sub" THEN IntV(a - b)
        ELSE IF op = "div" THEN IntV(floordiv(a, b))
        ELSE IF op = "eq" THEN BoolV(a = b)
        ELSE IF op = "lt" THEN BoolV(a < b)
        ELSE IF op = "gt" THEN BoolV(a > b)
        ELSE IF op = "le" THEN BoolV(a <= b)
        ELSE IF op = "ge" THEN BoolV(a >= b)
        ELSE IF op = "not" THEN BoolV(a = 0)
        ELSE IF op = "and"
             THEN IF bools THEN BoolV(and_(a, b) = 1) ELSE IntV(and_(a, b))
        ELSE IF bools THEN BoolV(or_(a, b) = 1) ELSE IntV(or_(a, b))

EvalOps == {"add", "mul", "sub", "div", "eq", "lt", "gt", "le", "ge",
            "not", "and", "or"}

-----------------------------------------------------------------------------
(* cprop.py: a dict var -> value is a function on DfVars; a key the dict   *)
(* lacks maps to Absent.                                                   *)

DfVars == {"x", "y"}

EmptyDict == [k \in DfVars |-> Absent]

\* var2const.get(k, UNKNOWN)
get(var2const, k) == IF var2const[k] = Absent THEN UNKNOWN ELSE var2const[k]

is_const(v) == ~PyEq(v, UNKNOWN)

\* A fold that evaluates when every operand is a known constant and the
\* divisor is not 0, and knows no other rule.
fold_all_known(instr, var2const) ==
    LET vals == [i \in 1..Len(instr.args) |-> get(var2const, instr.args[i])]
    IN  IF instr.op \notin EvalOps THEN NoValue
        ELSE IF \E i \in 1..Len(vals) : ~is_const(vals[i]) THEN NoValue
        ELSE IF instr.op = "div" /\ PyEq(vals[2], IntV(0)) THEN NoValue
        ELSE EVAL_OPS(instr.op, vals)

\* fold; NoValue stands for the None it returns.
fold(instr, var2const) ==
    LET op   == instr.op
        args == instr.args
        vals == [i \in 1..Len(args) |-> get(var2const, args[i])]
        rest == IF \E i \in 1..Len(vals) : ~is_const(vals[i])
                THEN NoValue
                ELSE EVAL_OPS(op, vals)
    IN  IF op \notin EvalOps THEN NoValue
        ELSE IF op \in {"add", "mul", "sub", "div"}
        THEN IF op = "div" /\ PyEq(vals[2], IntV(0)) THEN NoValue ELSE rest
        ELSE IF op \in {"eq", "lt", "gt", "le", "ge"}
        THEN IF args[1] = args[2]
             THEN BoolV(op \in {"eq", "le", "ge"})
             ELSE rest
        ELSE IF op = "and" /\ (vals[1] = BoolV(FALSE) \/ vals[2] = BoolV(FALSE))
        THEN BoolV(FALSE)
        ELSE IF op = "or" /\ (vals[1] = BoolV(TRUE) \/ vals[2] = BoolV(TRUE))
        THEN BoolV(TRUE)
        ELSE rest

RECURSIVE cprop_out_from(_, _, _)
cprop_out_from(b, i, var2const) ==
    IF i > Len(b) THEN var2const
    ELSE LET instr == b[i] IN
         IF instr.op = None \/ instr.dest = None
         THEN cprop_out_from(b, i + 1, var2const)
         ELSE IF instr.op = "const"
         THEN cprop_out_from(b, i + 1,
                  [var2const EXCEPT ![instr.dest] = instr.value])
         ELSE IF instr.op = "id" /\ is_const(get(var2const, instr.args[1]))
         THEN cprop_out_from(b, i + 1,
                  [var2const EXCEPT ![instr.dest] = var2const[instr.args[1]]])
         ELSE LET res == fold(instr, var2const) IN
              cprop_out_from(b, i + 1,
                  [var2const EXCEPT ![instr.dest] =
                       IF res # NoValue THEN res ELSE UNKNOWN])

cprop_out(b, in_) == cprop_out_from(b, 1, in_)

\* cprop.merge: a key of any dict is kept, with the value of the first dict
\* that holds it while the later ones equal it, and with UNKNOWN once one
\* differs.
cprop_merge(dicts) ==
    [k \in DfVars |->
        LET held == SelectSeq(dicts, LAMBDA d : d[k] # Absent)
        IN  IF held = <<>> THEN Absent
            ELSE IF \A i \in 1..Len(held) : PyEq(held[i][k], held[1][k])
            THEN held[1][k]
            ELSE UNKNOWN]

-----------------------------------------------------------------------------
(* defined.py and live.py                                                  *)

defined_defs(b) == {b[i].dest : i \in {j \in 1..Len(b) : b[j].dest # None}}

defined_kills(b) == {b[i].dest : i \in {j \in 1..Len(b) : b[j].dest # None}}

defined_out(b, in_) == defined_defs(b) \cup (in_ \ defined_kills(b))

\* uses: the block scanned from its last instruction to its first.
RECURSIVE live_uses_from(_, _, _)
live_uses_from(b, i, u) ==
    IF i < 1 THEN u
    ELSE live_uses_from(b, i - 1, (u \ {b[i].dest}) \cup Range(b[i].args))

live_uses(b) == live_uses_from(b, Len(b), {})

live_kills(b) == {b[i].dest : i \in {j \in 1..Len(b) : b[j].dest # None}}

live_in(b, out) == live_uses(b) \cup (out \ live_kills(b))

-----------------------------------------------------------------------------
(* df.py: the worklist solver.                                             *)

df_find_predecessors(name2successors) ==
    [i \in 1..Len(name2successors) |->
        [k |-> name2successors[i].k,
         v |-> OdKeys(SelectSeq(name2successors,
                   LAMBDA e : name2successors[i].k \in Range(e.v)))]]

set_union(sets) == UNION Range(sets)

\* dict_intersection: the (key, value) pairs that every dict holds, each
\* with the value object of the last dict.
dict_intersection(dicts) ==
    IF dicts = <<>> THEN EmptyDict
    ELSE [k \in DfVars |->
            IF \A i \in 1..Len(dicts) :
                   dicts[i][k] # Absent /\ PyEq(dicts[i][k], dicts[1][k])
            THEN dicts[Len(dicts)][k]
            ELSE Absent]

\* The arguments solve() hands to _solve for each analysis.
Analyses == {"defined", "cprop", "live"}

flow_of(a) == IF a = "live" THEN "backward" ELSE "forward"

init_of(a) == IF a = "cprop" THEN EmptyDict ELSE {}

transfer(a, block, in_) ==
    IF a = "defined" THEN defined_out(block, in_)
    ELSE IF a = "cprop" THEN cprop_out(block, in_)
    ELSE live_in(block, in_)

merge(a, values) ==
    IF a = "cprop" THEN dict_intersection(values) ELSE set_union(values)

\* A comparison that finds every new out different from the old one.
py_ne_always(a, v, w) == TRUE

\* A comparison of the two flow values by their number of entries only.
py_ne_len(a, v, w) ==
    IF a = "cprop"
    THEN Cardinality({k \in DfVars : v[k] # Absent})
             # Cardinality({k \in DfVars : w[k] # Absent})
    ELSE Cardinality(v) # Cardinality(w)

\* Python's != on two flow values of analysis a.
py_ne(a, v, w) ==
    IF a = "cprop"
    THEN \E k \in DfVars :
            \/ (v[k] = Absent) # (w[k] = Absent)
            \/ v[k] # Absent /\ w[k] # Absent /\ ~PyEq(v[k], w[k])
    ELSE v # w

\* worklist += name2successors[block_name], when the block's out changed.
enqueue_never(worklist_, changed, succs) == worklist_

enqueue(worklist_, changed, succs) ==
    IF changed THEN worklist_ \o succs ELSE worklist_

\* _solve up to the loop.  Without a block, taking the entry name raises.
SolveStart ==
    /\ pc = "start"
    /\ \E bs \in {name_blocks(form_blocks(instrs))} :
       \E succ \in {get_cfg(bs)} :
       \E pred \in {df_find_predecessors(succ)} :
          /\ blocks' = bs
          /\ IF bs = <<>>
             THEN /\ pc' = "error"
                  /\ successors' = succ
                  /\ predecessors' = pred
                  /\ UNCHANGED <<worklist, ins, outs>>
             ELSE LET entry_name == IF flow_of(analysis) = "backward"
                                    THEN bs[Len(bs)].k ELSE bs[1].k
                  IN  /\ ins' = [n \in {entry_name} |-> init_of(analysis)]
                      /\ outs' = [n \in BlockNamesOf(bs) |-> init_of(analysis)]
                      /\ successors' = IF flow_of(analysis) = "backward"
                                       THEN pred ELSE succ
                      /\ predecessors' = IF flow_of(analysis) = "backward"
                                         THEN succ ELSE pred
                      /\ worklist' = OdKeys(bs)
                      /\ pc' = "loop"
    /\ UNCHANGED <<optVars, outVars, instrs, round, first, domVars, analysis, ssaVars>>

\* One iteration of the while loop.
SolveStep ==
    /\ pc = "loop"
    /\ worklist # <<>>
    /\ Len(worklist) <= MaxWork
    /\ LET block_name == Head(worklist)
           block == OdGet(blocks, block_name)
           preds == OdGet(predecessors, block_name)
       IN  \E in_ \in {merge(analysis, [i \in 1..Len(preds) |-> outs[preds[i]]])} :
           \E out \in {transfer(analysis, block, in_)} :
              /\ worklist' = enqueue(Tail(worklist),
                                     py_ne(analysis, out, outs[block_name]),
                                     OdGet(successors, block_name))
              /\ ins' = [n \in DOMAIN ins \cup {block_name} |->
                            IF n = block_name THEN in_ ELSE ins[n]]
              /\ outs' = [outs EXCEPT ![block_name] = out]
    /\ UNCHANGED <<optVars, outVars, pc, instrs, round, first, cfgVars, domVars, analysis, ssaVars>>

\* The loop has ended: swap for a backward analysis and return.
SolveReturn ==
    /\ pc = "loop"
    /\ worklist = <<>>
    /\ ins' = IF flow_of(analysis) = "backward" THEN outs ELSE ins
    /\ outs' = IF flow_of(analysis) = "backward" THEN ins ELSE outs
    /\ pc' = "done"
    /\ UNCHANGED <<optVars, outVars, instrs, round, first, cfgVars, domVars, analysis, worklist,
                   ssaVars>>

NextDf == SolveStart \/ SolveStep \/ SolveReturn

\* The body of the while loop as a function of the solver's state, for the
\* block at position i of the worklist (`# We can pick any block here.`).
remove_at(list, i) == SubSeq(list, 1, i - 1) \o SubSeq(list, i + 1, Len(list))

solve_step(a, bs, succ, pred, worklist_, i, ins_, outs_) ==
    LET block_name == worklist_[i]
        preds == OdGet(pred, block_name)
        in_   == merge(a, [j \in 1..Len(preds) |-> outs_[preds[j]]])
        out   == transfer(a, OdGet(bs, block_name), in_)
    IN  [worklist |-> enqueue(remove_at(worklist_, i),
                              py_ne(a, out, outs_[block_name]),
                              OdGet(succ, block_name)),
         ins      |-> [n \in DOMAIN ins_ \cup {block_name} |->
                          IF n = block_name THEN in_ ELSE ins_[n]],
         outs     |-> [outs_ EXCEPT ![block_name] = out]]

\* One iteration of the while loop that pops any block of the worklist.
SolveStepAny ==
    /\ pc = "loop"
    /\ worklist # <<>>
    /\ Len(worklist) <= MaxWork
    /\ \E i \in 1..Len(worklist) :
       \E r \in {solve_step(analysis, blocks, successors, predecessors,
                            worklist, i, ins, outs)} :
          /\ worklist' = r.worklist
          /\ ins' = r.ins
          /\ outs' = r.outs
          /\ leftmost' = (leftmost /\ i = 1)
    /\ UNCHANGED <<table, passes, outVars, pc, instrs, round, first, cfgVars, domVars, analysis, ssaVars>>

NextDfAny == SolveStart \/ SolveStepAny \/ SolveReturn

\* _solve as it is written: popleft until the worklist is empty, at most
\* `fuel` times.
RECURSIVE solve_loop(_, _, _, _, _, _)
solve_loop(a, bs, succ, pred, st, fuel) ==
    IF st.worklist = <<>> \/ fuel = 0 THEN st
    ELSE solve_loop(a, bs, succ, pred,
                    CHOOSE r \in {solve_step(a, bs, succ, pred, st.worklist, 1,
                                              st.ins, st.outs)} : TRUE,
                    fuel - 1)

\* The in and out maps that _solve returns for the instruction list.
solve(a, body) ==
    LET bs   == name_blocks(form_blocks(body))
        succ == get_cfg(bs)
        pred == df_find_predecessors(succ)
        back == flow_of(a) = "backward"
        entry_name == IF back THEN bs[Len(bs)].k ELSE bs[1].k
        st   == solve_loop(a, bs, IF back THEN pred ELSE succ,
                           IF back THEN succ ELSE pred,
                           [worklist |-> OdKeys(bs),
                            ins  |-> [n \in {entry_name} |-> init_of(a)],
                            outs |-> [n \in BlockNamesOf(bs) |-> init_of(a)]],
                           MaxPops)
    IN  [ended |-> st.worklist = <<>>,
         ins   |-> IF back THEN st.outs ELSE st.ins,
         outs  |-> IF back THEN st.ins ELSE st.outs]

-----------------------------------------------------------------------------
(* Inputs of the data-flow specification: up to DfBlocks blocks with a     *)
(* body from DfBodies each; the first block may be unlabelled, and the     *)
(* second block is labelled b0.                                            *)

DfLabels == <<"entry", "b0", "c", "d">>

DfBodies ==
    { <<>>,
      <<Const("x", IntV(1))>>,
      <<Op("id", "y", <<"x">>)>>,
      <<Const("y", BoolV(TRUE)), Op("or", "x", <<"y", "x">>)>> }

DfEndInstr(e) ==
    IF e[1] = "ret" THEN <<Ret>>
    ELSE IF e[1] = "jmp" THEN <<Jmp(DfLabels[e[2]])>>
    ELSE IF e[1] = "br" THEN <<Br("x", DfLabels[e[2]], DfLabels[e[3]])>>
    ELSE <<>>

RECURSIVE df_gen_from(_, _, _)
df_gen_from(bodies, ends, i) ==
    IF i > Len(ends) THEN <<>>
    ELSE <<Label(DfLabels[i])>> \o bodies[i] \o DfEndInstr(ends[i])
         \o df_gen_from(bodies, ends, i + 1)

\* anon: the first block carries no label.
DfFunction(bodies, ends, anon) ==
    IF anon THEN Tail(df_gen_from(bodies, ends, 1))
    ELSE df_gen_from(bodies, ends, 1)

DfEnds(n, anon) ==
    {e \in DomEnds(n) :
        anon => /\ (e[1] = "jmp" => e[2] # 1)
                /\ (e[1] = "br" => e[2] # 1 /\ e[3] # 1)}

InitDf ==
    /\ \E n \in 1..DfBlocks : \E anon \in BOOLEAN :
       \E ends \in [1..n -> DfEnds(n, anon)] :
       \E bodies \in [1..n -> DfBodies] :
           instrs = DfFunction(bodies, ends, anon)
    /\ analysis \in Analyses
    /\ pc = "start"
    /\ round = 1
    /\ first = [blocks |-> NoCfg, successors |-> NoCfg]
    /\ blocks = NoCfg
    /\ successors = NoCfg
    /\ predecessors = NoCfg
    /\ dom = NoCfg /\ tree = NoCfg /\ front = NoCfg
    /\ worklist = <<>> /\ ins = NoCfg /\ outs = NoCfg
    /\ func_args = <<>> /\ ssa_vars = <<>> /\ unrenamed = NoCfg
    /\ stack = <<>> /\ num = <<>> /\ frames = <<>> /\ at_end = <<>>
    /\ source = <<>> /\ defs_to_add = <<>>
    /\ table = <<>> /\ passes = <<>> /\ leftmost = TRUE

SpecDf == InitDf /\ [][NextDf]_vars

\* Inputs of the any-order and liveness specifications: LoopBlocks labelled blocks, each
\* with a body from LoopBodies; the first block falls through or branches to
\* the two others, and the others jump back or to themselves, branch back to
\* the first block, fall through or (the last) return.
LoopBlocks == 3

LoopBodies ==
    { <<>>, <<Const("x", IntV(1))>>, <<Op("id", "y", <<"x">>)>> }

LoopEnds ==
    {e \in [1..LoopBlocks -> DomEnds(LoopBlocks)] :
        /\ e[1] \in {<<"fall">>, <<"br", 2, 3>>}
        /\ \A i \in 2..LoopBlocks :
               /\ e[i][1] = "br" => e[i][2] = 1
               /\ e[i][1] = "jmp" => e[i][2] <= i
        /\ \A i \in 2..(LoopBlocks - 1) : e[i][1] # "ret"
        /\ e[LoopBlocks][1] # "fall"}

InitDfLoops ==
    /\ \E ends \in LoopEnds : \E bodies \in [1..LoopBlocks -> LoopBodies] :
           instrs = DfFunction(bodies, ends, FALSE)
    /\ analysis \in Analyses
    /\ pc = "start"
    /\ round = 1
    /\ first = [blocks |-> NoCfg, successors |-> NoCfg]
    /\ blocks = NoCfg
    /\ successors = NoCfg
    /\ predecessors = NoCfg
    /\ dom = NoCfg /\ tree = NoCfg /\ front = NoCfg
    /\ worklist = <<>> /\ ins = NoCfg /\ outs = NoCfg
    /\ func_args = <<>> /\ ssa_vars = <<>> /\ unrenamed = NoCfg
    /\ stack = <<>> /\ num = <<>> /\ frames = <<>> /\ at_end = <<>>
    /\ source = <<>> /\ defs_to_add = <<>>
    /\ table = <<>> /\ passes = <<>> /\ leftmost = TRUE

SpecDfAny == InitDfLoops /\ [][NextDfAny]_vars

\* Inputs of the folding specification: one block that gives x and y a
\* constant each, or leaves them unknown (not assigned, or assigned from an
\* unknown), and ends with an instruction of an evaluable op on them; the
\* operands of and, or, not are bools, those of the other ops ints.
FoldInts == {IntV(0), IntV(1), IntV(2)}

FoldBools == {BoolV(FALSE), BoolV(TRUE)}

FoldPrefix(v, consts) ==
    { <<>>, <<Op("id", v, <<v>>)>> } \cup { <<Const(v, c)>> : c \in consts }

FoldBodies ==
    { px \o py \o <<Op(op, d, <<p, q>>)>> :
        px \in FoldPrefix("x", FoldInts), py \in FoldPrefix("y", FoldInts),
        op \in {"add", "mul", "sub", "div", "eq", "lt", "gt", "le", "ge"},
        d \in DfVars, p \in DfVars, q \in DfVars }
    \cup
    { px \o py \o <<Op(op, d, <<p, q>>)>> :
        px \in FoldPrefix("x", FoldBools), py \in FoldPrefix("y", FoldBools),
        op \in {"and", "or"}, d \in DfVars, p \in DfVars, q \in DfVars }
    \cup
    { px \o py \o <<Op("not", d, <<p>>)>> :
        px \in FoldPrefix("x", FoldBools), py \in FoldPrefix("y", FoldBools),
        d \in DfVars, p \in DfVars }

InitFold ==
    /\ instrs \in FoldBodies
    /\ analysis = "cprop"
    /\ pc = "start"
    /\ round = 1
    /\ first = [blocks |-> NoCfg, successors |-> NoCfg]
    /\ blocks = NoCfg
    /\ successors = NoCfg
    /\ predecessors = NoCfg
    /\ dom = NoCfg /\ tree = NoCfg /\ front = NoCfg
    /\ worklist = <<>> /\ ins = NoCfg /\ outs = NoCfg
    /\ func_args = <<>> /\ ssa_vars = <<>> /\ unrenamed = NoCfg
    /\ stack = <<>> /\ num = <<>> /\ frames = <<>> /\ at_end = <<>>
    /\ source = <<>> /\ defs_to_add = <<>>
    /\ table = <<>> /\ passes = <<>> /\ leftmost = TRUE

SpecFold == InitFold /\ [][NextDf]_vars

\* The interpreter runs the while loop on: an iteration that can be taken is
\* taken, and the return follows the last one.
\* Of the inputs above, the functions whose last block returns or jumps back
\* to the first block.
InitLive == InitDfLoops /\ instrs[Len(instrs)] \in {Ret, Jmp(DfLabels[1])}

LiveDf == InitLive /\ [][NextDf]_vars /\ WF_vars(NextDf)

-----------------------------------------------------------------------------
(* ssa.py: phi insertion.                                                  *)

RECURSIVE all_instrs_from(_, _)
all_instrs_from(bs, i) ==
    IF i > Len(bs) THEN <<>> ELSE bs[i].v \o all_instrs_from(bs, i + 1)

\* The instructions of all blocks, in the order of cfg.blocks.items().
all_instrs(bs) == all_instrs_from(bs, 1)

RECURSIVE first_seen(_, _, _)
first_seen(list, i, acc) ==
    IF i > Len(list) THEN acc
    ELSE first_seen(list, i + 1,
                    IF list[i] \in Range(acc) THEN acc ELSE Append(acc, list[i]))

\* list(defsites(cfg).keys()): the variables in the order of their first
\* definition.
defsites_keys(bs) ==
    LET is == all_instrs(bs)
        ds == SelectSeq(is, LAMBDA instr : instr.dest # None)
    IN  first_seen([i \in 1..Len(ds) |-> ds[i].dest], 1, <<>>)

\* defsites(cfg)[v], the empty set for a variable without definition.
defsites(bs, v) ==
    {bs[i].k : i \in {j \in 1..Len(bs) :
                        \E m \in 1..Len(bs[j].v) : bs[j].v[m].dest = v}}

\* deforig(cfg)[n]
deforig(bs, n) ==
    {OdGet(bs, n)[m].dest : m \in {j \in 1..Len(OdGet(bs, n)) :
                                      OdGet(bs, n)[j].dest # None}}

is_phi(instr) == instr.op = "phi"

Phi(v, preds) ==
    Instr("phi", None, v, [i \in 1..Len(preds) |-> v], preds, NoValue)

\* The while loop of insert_phi_nodes for one variable: the blocks that get
\* a phi for v.  defs[v].pop() takes the element of defs_v that comes first
\* in prio, a list of all block names in some order.
RECURSIVE phi_blocks(_, _, _, _, _, _)
phi_blocks(v, defs_v, phi, prio, front_, orig) ==
    IF defs_v = {} THEN phi
    ELSE LET d   == prio[CHOOSE i \in 1..Len(prio) :
                          /\ prio[i] \in defs_v
                          /\ \A j \in 1..(i - 1) : prio[j] \notin defs_v]
             new == Range(front_[d]) \ phi
         IN  phi_blocks(v, (defs_v \ {d}) \cup {f \in new : v \notin orig[f]},
                        phi \cup new, prio, front_, orig)

\* The blocks after insert_phi_nodes, given the blocks at[v] that get a phi
\* for v: every phi is inserted at index 0, so a block's phis stand in the
\* reverse of the order of vars.
RECURSIVE phis_of(_, _, _, _, _)
phis_of(f, i, pred, vars_, at) ==
    IF i > Len(vars_) THEN <<>>
    ELSE phis_of(f, i + 1, pred, vars_, at) \o
         (IF f \in at[vars_[i]]
          THEN <<Phi(vars_[i], OdGet(pred, f))>> ELSE <<>>)

insert_phi_nodes(bs, pred, front_, vars_, func_args_, prio) ==
    LET entry == entry_of(bs)
        orig  == [n \in BlockNamesOf(bs) |->
                     deforig(bs, n) \cup
                     (IF n = entry THEN Range(func_args_) ELSE {})]
        defs(v) == defsites(bs, v) \cup
                   (IF v \in Range(func_args_) THEN {entry} ELSE {})
    IN  CHOOSE r \in
            {[i \in 1..Len(bs) |->
                 [k |-> bs[i].k,
                  v |-> phis_of(bs[i].k, 1, pred, vars_, at) \o bs[i].v]] :
             at \in {[v \in Range(vars_) |->
                        phi_blocks(v, defs(v), {}, prio, front_, orig)]}} : TRUE

\* The orders in which the model lets set.pop() take the blocks.
PopOrders(names) == {names, [i \in 1..Len(names) |-> names[Len(names) + 1 - i]]}

-----------------------------------------------------------------------------
(* ssa.py: renaming.  rename_recur is followed call by call: frames is its *)
(* call stack, under a root frame that stands for rename_variable itself.  *)

TopOf(stack_, v) == stack_[v][Len(stack_[v])]

\* rename_args: every argument that has a name on its stack becomes that
\* name.  stack[arg] raises KeyError for a name that is no key of stack.
rename_args_ok(instr, stack_) == Range(instr.args) \subseteq DOMAIN stack_

rename_args(instr, stack_) ==
    [instr EXCEPT !.args =
        [i \in 1..Len(instr.args) |->
            IF stack_[instr.args[i]] # <<>>
            THEN TopOf(stack_, instr.args[i]) ELSE instr.args[i]]]

\* fresh_name: the name pushed for v
fresh_name(v, num_) == v \o "." \o ToString(num_[v])

\* The first loop of rename_recur over the instructions of a block.
\* st: the renamed instructions so far, stack, num, rename_count, and ok,
\* which is FALSE once a KeyError was raised.
RECURSIVE rename_instrs(_, _, _)
rename_instrs(block, i, st) ==
    IF i > Len(block) \/ ~st.ok THEN st
    ELSE LET instr == block[i] IN
         IF ~is_phi(instr) /\ ~rename_args_ok(instr, st.stack)
         THEN [st EXCEPT !.ok = FALSE]
         ELSE LET renamed == IF is_phi(instr) THEN instr
                             ELSE rename_args(instr, st.stack)
              IN  IF instr.dest = None
                  THEN rename_instrs(block, i + 1,
                           [st EXCEPT !.out = Append(@, renamed)])
                  ELSE LET v == instr.dest
                           name == fresh_name(v, st.num)
                       IN  rename_instrs(block, i + 1,
                             [out   |-> Append(st.out,
                                               [renamed EXCEPT !.dest = name]),
                              stack |-> [st.stack EXCEPT ![v] = Append(@, name)],
                              num   |-> [st.num EXCEPT ![v] = @ + 1],
                              count |-> [st.count EXCEPT ![v] = @ + 1],
                              ok    |-> TRUE])

\* The index of the first label of p that is block_name, 0 if there is none.
label_index(p, block_name) ==
    IF \E i \in 1..Len(p.labels) : p.labels[i] = block_name
    THEN CHOOSE i \in 1..Len(p.labels) :
            /\ p.labels[i] = block_name
            /\ \A j \in 1..(i - 1) : p.labels[j] # block_name
    ELSE 0

\* The phi argument that comes from the current block.
phi_arg(arg, stack_) ==
    IF stack_[arg] # <<>> THEN TopOf(stack_, arg) ELSE arg \o ".undef"

\* The second loop of rename_recur, for one successor: the phis of block
\* succ get the argument that comes from block_name.
rename_phis_ok(block, block_name, stack_) ==
    \A m \in 1..Len(block) :
        (is_phi(block[m]) /\ label_index(block[m], block_name) # 0)
            => block[m].args[label_index(block[m], block_name)]
                   \in DOMAIN stack_

rename_phis(block, block_name, stack_) ==
    [m \in 1..Len(block) |->
        LET p == block[m]
            i == label_index(p, block_name)
        IN  IF is_phi(p) /\ i # 0
            THEN [p EXCEPT !.args[i] = phi_arg(p.args[i], stack_)]
            ELSE p]

\* The second loop over all successors, in their order; bs.ok is FALSE once
\* a KeyError was raised.
RECURSIVE rename_successors(_, _, _, _, _)
rename_first_successor(r, block_name, succs, i, stack_) ==
    IF i > 1 \/ i > Len(succs) \/ ~r.ok THEN r
    ELSE LET block == OdGet(r.blocks, succs[i]) IN
         IF ~rename_phis_ok(block, block_name, stack_)
         THEN [r EXCEPT !.ok = FALSE]
         ELSE [r EXCEPT !.blocks =
                  OdPut(@, succs[i], rename_phis(block, block_name, stack_))]

rename_successors(r, block_name, succs, i, stack_) ==
    IF i > Len(succs) \/ ~r.ok THEN r
    ELSE LET block == OdGet(r.blocks, succs[i]) IN
         IF ~rename_phis_ok(block, block_name, stack_)
         THEN [r EXCEPT !.ok = FALSE]
         ELSE rename_successors(
                  [r EXCEPT !.blocks =
                      OdPut(@, succs[i],
                            rename_phis(block, block_name, stack_))],
                  block_name, succs, i + 1, stack_)

\* rename_recur(block_name) up to its loop over dtree[block_name].
rename_enter(bs, succ, block_name, stack_, num_) ==
    LET st0 == [out |-> <<>>, stack |-> stack_, num |-> num_,
                count |-> [v \in DOMAIN stack_ |-> 0], ok |-> TRUE]
        second(st) ==
            IF ~st.ok THEN [blocks |-> bs, ok |-> FALSE]
            ELSE rename_successors(
                     [blocks |-> OdPut(bs, block_name, st.out), ok |-> TRUE],
                     block_name, OdGet(succ, block_name), 1, st.stack)
    IN  CHOOSE x \in
            UNION {{[blocks |-> r.blocks, ok |-> r.ok, stack |-> st.stack,
                     num |-> st.num, count |-> st.count] :
                        r \in {second(st)}} :
                   st \in {rename_instrs(OdGet(bs, block_name), 1, st0)}} : TRUE

\* A return that pops nothing.
restore_nothing(stack_, rename_count) == stack_

\* The last loop of rename_recur: pop what the block pushed.
restore(stack_, rename_count) ==
    [v \in DOMAIN stack_ |->
        SubSeq(stack_[v], 1, Len(stack_[v]) - rename_count[v])]

-----------------------------------------------------------------------------
(* ssa.py: to_ssa, after the CFG was built and pruned.                     *)

\* vars = list(defsites(cfg).keys()); insert_phi_nodes(cfg, vars, func_args)
InsertPhiNodes ==
    /\ pc = "pruned"
    /\ \E vs \in {defsites_keys(blocks)} :
       \E fr \in {dom_front(blocks, predecessors)} :
       \E prio \in PopOrders(OdKeys(blocks)) :
          /\ ssa_vars' = vs
          /\ front' = fr
          /\ blocks' = insert_phi_nodes(blocks, predecessors, fr, vs,
                                        func_args, prio)
    /\ unrenamed' = blocks'
    /\ pc' = "phis"
    /\ UNCHANGED <<optVars, outVars, instrs, round, first, successors, predecessors, dom, tree,
                   dfVars, func_args, stack, num, frames, at_end>>

RootFrame == [block |-> None, count |-> <<>>, next |-> 1]

\* The blocks rename_recur visits from the frame: dtree[block_name], and
\* for the root frame the entry.
children(frame) ==
    IF frame.block = None THEN <<entry_of(blocks)>> ELSE tree[frame.block]

\* rename_variable up to the call rename_recur(cfg.entry).
RenameStart ==
    /\ pc = "phis"
    /\ LET keys == Range(ssa_vars) \cup Range(func_args) IN
          /\ stack' = [v \in keys |->
                          IF v \in Range(func_args) THEN <<v>> ELSE <<>>]
          /\ num' = [v \in keys |-> 0]
    /\ tree' \in dom_tree(blocks, predecessors)
    /\ frames' = <<RootFrame>>
    /\ at_end' = <<>>
    /\ pc' = "rename"
    /\ UNCHANGED <<optVars, outVars, instrs, round, first, cfgVars, dom, front, dfVars,
                   func_args, ssa_vars, unrenamed>>

\* A call of rename_recur, up to its loop over the children of the block.
RenameEnter ==
    /\ pc = "rename"
    /\ LET top == frames[Len(frames)] IN
       /\ top.next <= Len(children(top))
       /\ \E r \in {rename_enter(blocks, successors,
                                 children(top)[top.next], stack, num)} :
          IF r.ok
          THEN /\ blocks' = r.blocks
               /\ stack' = r.stack
               /\ num' = r.num
               /\ frames' = Append([frames EXCEPT ![Len(frames)].next = @ + 1],
                                   [block |-> children(top)[top.next],
                                    count |-> r.count, next |-> 1])
               /\ at_end' = [n \in DOMAIN at_end \cup {children(top)[top.next]} |->
                              IF n = children(top)[top.next] THEN r.stack
                              ELSE at_end[n]]
               /\ pc' = "rename"
          ELSE /\ pc' = "error"
               /\ UNCHANGED <<blocks, stack, num, frames, at_end>>
    /\ UNCHANGED <<optVars, outVars, instrs, round, first, successors, predecessors, domVars,
                   dfVars, func_args, ssa_vars, unrenamed>>

\* The end of a call of rename_recur: the stacks are restored.
RenameReturn ==
    /\ pc = "rename"
    /\ LET top == frames[Len(frames)] IN
       /\ top.block # None
       /\ top.next > Len(children(top))
       /\ stack' = restore(stack, top.count)
       /\ frames' = SubSeq(frames, 1, Len(frames) - 1)
    /\ UNCHANGED <<optVars, outVars, pc, instrs, round, first, cfgVars, domVars, dfVars,
                   func_args, ssa_vars, unrenamed, num, at_end>>

\* rename_variable has returned: func["instrs"] = cfg.flatten()
ToSsaReturn ==
    /\ pc = "rename"
    /\ Len(frames) = 1
    /\ frames[1].next > 1
    /\ instrs' = flatten(blocks)
    /\ pc' = "ssa"
    /\ UNCHANGED <<optVars, outVars, round, first, cfgVars, domVars, dfVars, func_args,
                   ssa_vars, unrenamed, stack, num, frames, at_end>>

NextSsa ==
    \/ NameBlocks \/ BuildCfg \/ RemoveUnreachable
    \/ InsertPhiNodes \/ RenameStart \/ RenameEnter \/ RenameReturn
    \/ ToSsaReturn

-----------------------------------------------------------------------------
(* Inputs of the SSA specification: up to SsaBlocks labelled blocks with a *)
(* body from SsaBodies each, and the function's argument names.            *)

SsaBodies ==
    { <<>>,
      <<Const("x", IntV(1))>>,
      <<Op("id", "y", <<"y">>), Op("id", "y", <<"x">>)>> }

\* Every block ends in a terminator of its own.
SsaEnds(n) == DomEnds(n) \ {<<"fall">>}

SsaArgs == { <<>>, <<"x">>, <<"x.0">> }

\* The diamond with x assigned in both arms and used after the join.
DiamondBodies ==
    << <<>>, <<Const("x", IntV(1))>>,
       <<Const("x", IntV(2))>>, <<Op("id", "y", <<"x">>)>> >>

InitSsa ==
    /\ \/ /\ \E n \in 1..SsaBlocks : \E ends_ \in [1..n -> SsaEnds(n)] :
             \E bodies \in [1..n -> SsaBodies] : \E alt \in {0, 2} :
                 instrs = GenFunction(bodies, ends_, alt)
          /\ func_args \in SsaArgs
       \/ /\ instrs = GenFunction(DiamondBodies, DiamondEnds, 0)
          /\ func_args = <<"x">>
    /\ pc = "start"
    /\ round = 1
    /\ first = [blocks |-> NoCfg, successors |-> NoCfg]
    /\ blocks = NoCfg
    /\ successors = NoCfg
    /\ predecessors = NoCfg
    /\ dom = NoCfg /\ tree = NoCfg /\ front = NoCfg
    /\ analysis = None /\ worklist = <<>> /\ ins = NoCfg /\ outs = NoCfg
    /\ ssa_vars = <<>> /\ unrenamed = NoCfg
    /\ stack = <<>> /\ num = <<>> /\ frames = <<>> /\ at_end = <<>>
    /\ source = <<>> /\ defs_to_add = <<>>
    /\ table = <<>> /\ passes = <<>> /\ leftmost = TRUE

SpecSsa == InitSsa /\ [][NextSsa]_vars

-----------------------------------------------------------------------------
(* ssa.py: out_ssa.  defs_to_add is an ordered dict from the edge          *)
(* <<pred, succ>> to the list of copies Def(dest, src) to make on it.      *)

Def(dest, src) == [dest |-> dest, src |-> src]

\* arg.endswith(".undef"), for an argument that rename_recur wrote.
ends_with_undef(arg, names) == \E v \in names : arg = v \o ".undef"

\* The copies of one phi, in the order of zip(labels, args).
phi_defs(block_name, instr, names) ==
    LET n    == IF Len(instr.labels) < Len(instr.args)
                THEN Len(instr.labels) ELSE Len(instr.args)
        each == [i \in 1..n |->
                    [k |-> <<instr.labels[i], block_name>>,
                     v |-> Def(instr.dest, instr.args[i])]]
    IN  SelectSeq(each, LAMBDA e : ~ends_with_undef(e.v.src, names))

RECURSIVE block_defs(_, _, _, _)
block_defs(block_name, block, i, names) ==
    IF i > Len(block) THEN <<>>
    ELSE (IF is_phi(block[i]) THEN phi_defs(block_name, block[i], names)
          ELSE <<>>)
         \o block_defs(block_name, block, i + 1, names)

RECURSIVE all_defs(_, _, _)
all_defs(bs, i, names) ==
    IF i > Len(bs) THEN <<>>
    ELSE block_defs(bs[i].k, bs[i].v, 1, names) \o all_defs(bs, i + 1, names)

\* The first loop of out_ssa: defs_to_add, keyed in the order in which the
\* edges are met first.
collect_defs(bs, names) ==
    LET ds   == all_defs(bs, 1, names)
        keys == first_seen([i \in 1..Len(ds) |-> ds[i].k], 1, <<>>)
    IN  [j \in 1..Len(keys) |->
            LET mine == SelectSeq(ds, LAMBDA e : e.k = keys[j])
            IN  [k |-> keys[j], v |-> [m \in 1..Len(mine) |-> mine[m].v]]]

\* cfg.blocks[block].pop(i) for every phi.
remove_phis(bs) ==
    [i \in 1..Len(bs) |->
        [k |-> bs[i].k, v |-> SelectSeq(bs[i].v, LAMBDA instr : ~is_phi(instr))]]

\* remove_circular_id_instrs: a node of id_graph is (pred_succ, dest).
Node(pred_succ, var) == [edge |-> pred_succ, var |-> var]

RECURSIVE id_nodes_from(_, _)
id_nodes_from(d, i) ==
    IF i > Len(d) THEN <<>>
    ELSE [m \in 1..Len(d[i].v) |-> Node(d[i].k, d[i].v[m].dest)]
         \o id_nodes_from(d, i + 1)

\* The nodes in the order of the loops over defs_to_add.items().
id_nodes(d) == id_nodes_from(d, 1)

\* id_graph[node]: the copies that read what the node writes.
id_graph(d, node) ==
    UNION {{Node(d[i].k, d[i].v[m].dest) :
               m \in {j \in 1..Len(d[i].v) :
                         /\ d[i].v[j].src = node.var
                         /\ d[i].v[j].dest # node.var}} :
              i \in 1..Len(d)}

\* dfs(pred_succ, var) with its nonlocal visited, cycles and path in st.
\* A set of nodes is iterated in the order of prio, a list of all nodes.
RECURSIVE dfs(_, _, _, _)
RECURSIVE dfs_each(_, _, _, _, _)
dfs_visit(d, prio, node, st) ==
    IF st.path # <<>> /\ node = st.path[1]
    THEN [st EXCEPT !.cycles = Append(@, st.path)]
    ELSE IF node \in st.visited THEN st
    ELSE LET chd == SelectSeq(prio, LAMBDA n : n \in id_graph(d, node))
             r   == dfs_each(d, prio, chd, 1,
                             [st EXCEPT !.visited = @ \cup {node},
                                        !.path = Append(@, node)])
         IN  [visited |-> r.visited, cycles |-> r.cycles, path |-> st.path]

dfs(d, prio, node, st0) ==
    CHOOSE r \in {dfs_visit(d, prio, node, st) : st \in {st0}} : TRUE

dfs_each(d, prio, list, i, st0) ==
    IF i > Len(list) THEN st0
    ELSE CHOOSE r \in {dfs_each(d, prio, list, i + 1, st) :
                          st \in {dfs(d, prio, list[i], st0)}} : TRUE

\* The cycles found, each a path of nodes.
find_cycles(d, prio) ==
    dfs_each(d, prio, id_nodes(d), 1,
             [visited |-> {}, cycles |-> <<>>, path |-> <<>>]).cycles

\* defs.remove(next(def_ for def_ in defs if def_.dest == var)), and
\* nothing when no such def_ is left.
remove_first(defs, var) ==
    IF \E m \in 1..Len(defs) : defs[m].dest = var
    THEN LET m == CHOOSE m \in 1..Len(defs) :
                      /\ defs[m].dest = var
                      /\ \A j \in 1..(m - 1) : defs[j].dest # var
         IN  SubSeq(defs, 1, m - 1) \o SubSeq(defs, m + 1, Len(defs))
    ELSE defs

RECURSIVE remove_cycle(_, _, _)
remove_cycle(d0, cycle, i) ==
    IF i > Len(cycle) THEN d0
    ELSE CHOOSE r \in
           {remove_cycle(OdPut(d, cycle[i].edge,
                               remove_first(OdGet(d, cycle[i].edge),
                                            cycle[i].var)),
                         cycle, i + 1) : d \in {d0}} : TRUE

RECURSIVE remove_cycles(_, _, _)
remove_cycles(d0, cycles, i) ==
    IF i > Len(cycles) THEN d0
    ELSE CHOOSE r \in
           {remove_cycles(d, cycles, i + 1) :
               d \in {remove_cycle(d0, cycles[i], 1)}} : TRUE

remove_circular_id_instrs(d, prio) ==
    remove_cycles(d, find_cycles(d, prio), 1)

\* ControlFlowGraph.insert_between(pred, succ, block): the block gets the
\* name b.<pred>.<succ> and a jmp to succ, the terminator of pred targets
\* it instead of succ, and the two maps follow.
retarget(list, from, to) ==
    [i \in 1..Len(list) |-> IF list[i] = from THEN to ELSE list[i]]

insert_between(cfg, p, s, new_block) ==
    LET name == "b." \o p \o "." \o s
        old  == OdGet(cfg.blocks, p)
        last == old[Len(old)]
        bs1  == OdPut(cfg.blocks, p,
                      [old EXCEPT ![Len(old)] =
                          [last EXCEPT !.labels = retarget(@, s, name)]])
    IN  [blocks       |-> OdPut(bs1, name, new_block \o <<Jmp(s)>>),
         successors   |->
             OdPut(OdPut(cfg.successors, p,
                         retarget(OdGet(cfg.successors, p), s, name)),
                   name, <<s>>),
         predecessors |->
             OdPut(OdPut(cfg.predecessors, s,
                         retarget(OdGet(cfg.predecessors, s), p, name)),
                   name, <<p>>)]

\* The last loop of out_ssa: one new block per key of defs_to_add.
RECURSIVE add_definitions(_, _, _)
add_definitions(cfg0, d, i) ==
    IF i > Len(d) THEN cfg0
    ELSE CHOOSE r \in
           {add_definitions(cfg, d, i + 1) :
               cfg \in {insert_between(cfg0, d[i].k[1], d[i].k[2],
                           [m \in 1..Len(d[i].v) |->
                               Op("id", d[i].v[m].dest, <<d[i].v[m].src>>)])}}
           : TRUE

\* The names of the variables of a function.
names_of(body, func_args_) ==
    Range(func_args_) \cup
    UNION {Range(body[i].args) \cup
           (IF body[i].dest # None THEN {body[i].dest} ELSE {}) :
              i \in 1..Len(body)}

\* out_ssa: cfg = ControlFlowGraph(func["instrs"]);
\* cfg.remove_unreachable_blocks()
OutSsaCfg ==
    /\ pc = "ssa"
    /\ \E bs \in {name_blocks(form_blocks(instrs))} :
       \E succ \in {get_cfg(bs)} :
       \E r \in {add_entry(bs, succ, find_predecessors(succ))} :
       \E q \in {remove_unreachable_blocks(r.blocks, r.successors)} :
           /\ blocks' = q.blocks
           /\ successors' = q.successors
           /\ predecessors' = q.predecessors
    /\ pc' = "out-cfg"
    /\ UNCHANGED <<optVars, instrs, round, first, domVars, dfVars, ssaVars, outVars>>

\* out_ssa: the loop that collects the definitions and removes the phis.
CollectDefs ==
    /\ pc = "out-cfg"
    /\ defs_to_add' = collect_defs(blocks, names_of(source, func_args))
    /\ blocks' = remove_phis(blocks)
    /\ pc' = "out-defs"
    /\ UNCHANGED <<optVars, instrs, round, first, successors, predecessors,
                   domVars, dfVars, ssaVars, source>>

\* out_ssa: remove_circular_id_instrs(defs_to_add)
RemoveCircular ==
    /\ pc = "out-defs"
    /\ \E prio \in PopOrders(id_nodes(defs_to_add)) :
           defs_to_add' = remove_circular_id_instrs(defs_to_add, prio)
    /\ pc' = "out-acyclic"
    /\ UNCHANGED <<optVars, instrs, round, first, cfgVars, domVars, dfVars,
                   ssaVars, source>>

\* out_ssa: the new blocks, and func["instrs"] = cfg.flatten()
AddDefinitions ==
    /\ pc = "out-acyclic"
    /\ \E r \in {add_definitions([blocks |-> blocks,
                                  successors |-> successors,
                                  predecessors |-> predecessors],
                                 defs_to_add, 1)} :
           /\ blocks' = r.blocks
           /\ successors' = r.successors
           /\ predecessors' = r.predecessors
           /\ instrs' = flatten(r.blocks)
    /\ pc' = "out"
    /\ UNCHANGED <<optVars, round, first, domVars, dfVars, ssaVars, outVars>>

NextOut ==
    \/ NextSsa
    \/ OutSsaCfg \/ CollectDefs \/ RemoveCircular \/ AddDefinitions

-----------------------------------------------------------------------------
(* Inputs of the round trip to_ssa, out_ssa: up to OutBlocks blocks that   *)
(* print x, assign x or do nothing; the entry ends in a jmp or a br on the *)
(* argument x, every other block in a jmp or a ret.                        *)

Output(v) == Op("print", None, <<v>>)

OutBodies == { <<>>, <<Output("x")>>, <<Const("x", BoolV(FALSE))>> }

OutEnds(n, i) ==
    IF i = 1 THEN {e \in SsaEnds(n) : e[1] \in {"jmp", "br"}}
    ELSE {e \in SsaEnds(n) : e[1] \in {"jmp", "ret"}}

InitOut ==
    /\ \E n \in 1..OutBlocks :
       \E ends_ \in {f \in [1..n -> SsaEnds(n)] :
                        \A i \in 1..n : f[i] \in OutEnds(n, i)} :
       \E bodies \in [1..n -> OutBodies] :
           instrs = GenFunction(bodies, ends_, 0)
    /\ func_args = <<"x">>
    /\ source = instrs
    /\ defs_to_add = <<>>
    /\ table = <<>> /\ passes = <<>> /\ leftmost = TRUE
    /\ pc = "start"
    /\ round = 1
    /\ first = [blocks |-> NoCfg, successors |-> NoCfg]
    /\ blocks = NoCfg
    /\ successors = NoCfg
    /\ predecessors = NoCfg
    /\ dom = NoCfg /\ tree = NoCfg /\ front = NoCfg
    /\ analysis = None /\ worklist = <<>> /\ ins = NoCfg /\ outs = NoCfg
    /\ ssa_vars = <<>> /\ unrenamed = NoCfg
    /\ stack = <<>> /\ num = <<>> /\ frames = <<>> /\ at_end = <<>>

SpecOut == InitOut /\ [][NextOut]_vars

-----------------------------------------------------------------------------
(* lvn.py, run without --cprop.  The blocks of name_blocks(form_blocks())  *)
(* hold the instruction objects of func["instrs"], which lvn changes in    *)
(* place, so the pass is followed on the list itself: table.i is the       *)
(* position of the next instruction; a block runs from a label, or from    *)
(* the instruction after a terminator, to the next terminator or the       *)
(* instruction before the next label.  The field type is not kept: a const *)
(* has the type of its literal.                                            *)

Value(op, args) == [op |-> op, args |-> args]

\* An element of Value.args: a row number, the name of a variable, or the
\* pair (value, type) of a const.
Row(n) == [t |-> "row", n |-> n, s |-> ""]
Name(s) == [t |-> "name", n |-> 0, s |-> s]
Literal(v) == [t |-> "literal", n |-> v.n, s |-> v.t]

has_side_effect_any(op) == TRUE

has_side_effect(op) == op = "call"

\* No op is taken as commutative.
is_commutative_never(op) == FALSE

is_commutative(op) == op \in {"add", "mul", "eq", "and", "or"}

\* The names of the inputs in the order of Python's str comparison; the
\* str of a row number comes before every name.
LvnNames == <<"a", "b", "c", "d", "x", "x.0", "y">>

str_rank(e) ==
    IF e.t = "row" THEN e.n
    ELSE 100 + CHOOSE r \in 1..Len(LvnNames) : LvnNames[r] = e.s

\* sorted(row_nums, key=lambda x: str(x)), which is stable.
RECURSIVE sorted_by_str(_)
sorted_by_str(row_nums) ==
    IF row_nums = <<>> THEN <<>>
    ELSE LET m == CHOOSE i \in 1..Len(row_nums) :
                      /\ \A j \in 1..Len(row_nums) :
                             str_rank(row_nums[i]) <= str_rank(row_nums[j])
                      /\ \A j \in 1..(i - 1) :
                             str_rank(row_nums[i]) < str_rank(row_nums[j])
         IN  <<row_nums[m]>>
             \o sorted_by_str(SubSeq(row_nums, 1, m - 1)
                              \o SubSeq(row_nums, m + 1, Len(row_nums)))

extract_value_repr(instr, var2num) ==
    IF instr.op = "const" THEN Value("const", <<Literal(instr.value)>>)
    ELSE LET op == IF instr.funcs # <<>> THEN instr.op \o instr.funcs[1]
                   ELSE instr.op
             row_nums == [m \in 1..Len(instr.args) |->
                             IF OdHas(var2num, instr.args[m])
                             THEN Row(OdGet(var2num, instr.args[m]))
                             ELSE Name(instr.args[m])]
         IN  Value(op, IF is_commutative(op) THEN sorted_by_str(row_nums)
                       ELSE row_nums)

\* A renaming that leaves every argument as it is.
rename_args_nowhere(body, from, to, old_name, new_name) == body

\* rename_args_between(instrs[from..to], old_name, new_name)
rename_args_between(body, from, to, old_name, new_name) ==
    [m \in 1..Len(body) |->
        IF m \in from..to
        THEN [body[m] EXCEPT !.args =
                 [k \in 1..Len(body[m].args) |->
                     IF body[m].args[k] = old_name THEN new_name
                     ELSE body[m].args[k]]]
        ELSE body[m]]

\* rename_if_will_be_reassigned(body[i], body[i+1..last], next_lvn_number):
\* the name for the dest, and the list with the arguments renamed.
rename_if_will_be_reassigned(body, i, last, next_lvn_number) ==
    LET again == {j \in (i + 1)..last : body[j].dest = body[i].dest}
    IN  IF again = {} THEN [name |-> body[i].dest, instrs |-> body]
        ELSE LET j        == CHOOSE j \in again : \A k \in again : j <= k
                 new_name == body[i].dest \o "." \o ToString(next_lvn_number)
             IN  [name   |-> new_name,
                  instrs |-> rename_args_between(body, i + 1, j,
                                                 body[i].dest, new_name)]

replace_args_with_canonical(instr, t) ==
    [instr EXCEPT !.args =
        [k \in 1..Len(instr.args) |->
            IF OdHas(t.var2num, instr.args[k])
            THEN OdGet(t.num2var, OdGet(t.var2num, instr.args[k]))
            ELSE instr.args[k]]]

\* The tables at the head of a block.  key and hit keep the value of the
\* instruction numbered last and whether val2var held it.
NoKey == Value(None, <<>>)

EmptyTable(i) ==
    [i |-> i, row_num |-> 0, lvn_number |-> 0,
     val2var |-> <<>>, var2num |-> <<>>, num2var |-> <<>>,
     key |-> NoKey, hit |-> FALSE]

\* form_blocks: the instruction at i is the first of its block.
starts_block(body, i) ==
    i = 1 \/ is_label(body[i]) \/ body[i - 1].op \in TERMINATORS

\* form_blocks: the position of the last instruction of the block of i.
block_end(body, i) ==
    CHOOSE j \in i..Len(body) :
        /\ j = Len(body) \/ body[j].op \in TERMINATORS \/ is_label(body[j + 1])
        /\ \A k \in i..(j - 1) :
               ~(body[k].op \in TERMINATORS \/ is_label(body[k + 1]))

\* The body of the loop over the instructions of a block, for the
\* instruction at t0.i.
lvn_instr(body, t0) ==
    LET i     == t0.i
        t     == IF starts_block(body, i) THEN EmptyTable(i)
                 ELSE [t0 EXCEPT !.key = NoKey, !.hit = FALSE]
        instr == body[i]
        last  == block_end(body, i)
    IN  IF is_label(instr)
        THEN [instrs |-> body, table |-> [t EXCEPT !.i = i + 1]]
        ELSE IF instr.dest = None
        THEN [instrs |-> [body EXCEPT
                             ![i] = replace_args_with_canonical(instr, t)],
              table  |-> [t EXCEPT !.i = i + 1]]
        ELSE
        LET dummy  == /\ instr.op = "id"
                      /\ ~OdHas(t.var2num, instr.args[1])
                      /\ ~\E m \in i..last : body[m].dest = instr.args[1]
            t1     == IF dummy
                      THEN [t EXCEPT
                               !.val2var = OdPut(@, Value("id", <<Row(t.row_num)>>),
                                                 instr.args[1]),
                               !.var2num = OdPut(@, instr.args[1], t.row_num),
                               !.num2var = OdPut(@, t.row_num, instr.args[1]),
                               !.row_num = @ + 1]
                      ELSE t
            instr1 == replace_args_with_canonical(instr, t1)
            val    == extract_value_repr(instr1, t1.var2num)
            hit    == OdHas(t1.val2var, val) /\ ~has_side_effect(val.op)
        IN  IF hit
            THEN LET canon   == OdGet(t1.val2var, val)
                     the_row == OdGet(t1.var2num, canon)
                     instr2  == IF val.op # "const"
                                THEN [instr1 EXCEPT !.op = "id",
                                                    !.args = <<canon>>]
                                ELSE instr1
                 IN  [instrs |-> [body EXCEPT ![i] = instr2],
                      table  |-> [t1 EXCEPT
                                     !.var2num = OdPut(@, instr2.dest, the_row),
                                     !.i = i + 1, !.key = val, !.hit = TRUE]]
            ELSE LET r        == rename_if_will_be_reassigned(
                                     [body EXCEPT ![i] = instr1], i, last,
                                     t1.lvn_number)
                     dest     == r.name
                     copy     == /\ val.op = "id"
                                 /\ OdHas(t1.var2num, instr1.args[1])
                     the_row  == IF copy THEN OdGet(t1.var2num, instr1.args[1])
                                 ELSE t1.row_num
                     num2var1 == IF copy THEN t1.num2var
                                 ELSE OdPut(t1.num2var, the_row, dest)
                 IN  [instrs |-> [r.instrs EXCEPT ![i].dest = dest],
                      table  |-> [t1 EXCEPT
                                     !.lvn_number = IF dest # instr1.dest
                                                    THEN @ + 1 ELSE @,
                                     !.row_num = IF copy THEN @ ELSE @ + 1,
                                     !.num2var = num2var1,
                                     !.val2var = OdPut(@, val,
                                                       OdGet(num2var1, the_row)),
                                     !.var2num = OdPut(@, dest, the_row),
                                     !.i = i + 1, !.key = val, !.hit = FALSE]]

\* lvn: one iteration of the loop over the instructions.
LvnInstr ==
    /\ pc = "lvn"
    /\ table.i <= Len(instrs)
    /\ \E r \in {lvn_instr(instrs, table)} :
           /\ instrs' = r.instrs
           /\ table' = r.table
    /\ UNCHANGED <<pc, round, first, cfgVars, domVars, dfVars, ssaVars,
                   outVars, passes, leftmost>>

\* lvn: every block is numbered; json.dump(prog)
LvnReturn ==
    /\ pc = "lvn"
    /\ table.i > Len(instrs)
    /\ pc' = "dumped"
    /\ UNCHANGED <<instrs, round, first, cfgVars, domVars, dfVars, ssaVars,
                   outVars, optVars>>

NextLvn == LvnInstr \/ LvnReturn

-----------------------------------------------------------------------------
(* Inputs of the value-numbering specification: up to LvnLen instructions  *)
(* over a small alphabet, and the block of the redundancy example.         *)

LvnAlphabet ==
    { Op("add", "x", <<"a", "b">>), Op("add", "y", <<"b", "a">>),
      Op("sub", "x", <<"a", "b">>), Op("sub", "y", <<"b", "a">>),
      Const("x", IntV(1)), Const("x.0", IntV(7)), Const("a", IntV(2)),
      Op("id", "y", <<"x">>), Op("id", "x", <<"y">>),
      Call("x", "f", <<"a">>), Call("y", "f", <<"a">>),
      Output("y"), Label("l") }

Redundancy ==
    << Const("a", IntV(4)), Const("b", IntV(4)),
       Op("add", "c", <<"a", "b">>), Op("add", "d", <<"a", "b">>) >>

InitLvn ==
    /\ \/ instrs \in {b \in SeqsUpTo(LvnAlphabet, LvnLen) :
                         b # <<>> /\ DistinctLabels(b)}
       \/ instrs = Redundancy
    /\ source = instrs
    /\ table = EmptyTable(1)
    /\ pc = "lvn"
    /\ round = 1
    /\ first = [blocks |-> NoCfg, successors |-> NoCfg]
    /\ blocks = NoCfg
    /\ successors = NoCfg
    /\ predecessors = NoCfg
    /\ dom = NoCfg /\ tree = NoCfg /\ front = NoCfg
    /\ analysis = None /\ worklist = <<>> /\ ins = NoCfg /\ outs = NoCfg
    /\ func_args = <<>> /\ ssa_vars = <<>> /\ unrenamed = NoCfg
    /\ stack = <<>> /\ num = <<>> /\ frames = <<>> /\ at_end = <<>>
    /\ defs_to_add = <<>> /\ passes = <<>> /\ leftmost = TRUE

SpecLvn == InitLvn /\ [][NextLvn]_vars

\* Inputs of the specification of operand order: one block that ends with
\* x = op p q; y = op q p for a binary op, after definitions of none, one or
\* both of the operands.
BinaryOps ==
    {"add", "mul", "eq", "and", "or", "sub", "div", "lt", "gt", "le", "ge"}

PairPrefixes ==
    { <<>>,
      <<Const("a", IntV(2))>>,
      <<Const("b", IntV(3))>>,
      <<Const("a", IntV(2)), Const("b", IntV(3))>>,
      <<Const("a", IntV(2)), Const("b", IntV(2))>> }

InitPairs ==
    /\ \E op \in BinaryOps : \E prefix \in PairPrefixes :
       \E p, q \in {"a", "b"} :
           /\ p # q
           /\ instrs = prefix \o << Op(op, "x", <<p, q>>), Op(op, "y", <<q, p>>) >>
    /\ source = instrs
    /\ table = EmptyTable(1)
    /\ pc = "lvn"
    /\ round = 1
    /\ first = [blocks |-> NoCfg, successors |-> NoCfg]
    /\ blocks = NoCfg
    /\ successors = NoCfg
    /\ predecessors = NoCfg
    /\ dom = NoCfg /\ tree = NoCfg /\ front = NoCfg
    /\ analysis = None /\ worklist = <<>> /\ ins = NoCfg /\ outs = NoCfg
    /\ func_args = <<>> /\ ssa_vars = <<>> /\ unrenamed = NoCfg
    /\ stack = <<>> /\ num = <<>> /\ frames = <<>> /\ at_end = <<>>
    /\ defs_to_add = <<>> /\ passes = <<>> /\ leftmost = TRUE

SpecPairs == InitPairs /\ [][NextLvn]_vars

-----------------------------------------------------------------------------
(* tdce.py: the two passes and main.  passes.main is the list handed to    *)
(* main, passes.todo what is left of it; in round 2 the command runs on    *)
(* its own output, which first keeps.                                      *)

\* used: the union of the args of all instructions.
used_of(body) == UNION {Range(body[i].args) : i \in 1..Len(body)}

remove_def_with_no_use(body) ==
    IF used_of(body) = {} THEN body
    ELSE SelectSeq(body, LAMBDA instr :
                     instr.dest = None \/ instr.dest \in used_of(body))

\* The loops of remove_re_def_with_no_use_between from the instruction at
\* i on: unused maps a variable to the position of its last definition
\* that no instruction has used, or to 0; the result is the set of
\* positions marked is_dead.
RECURSIVE dead_from(_, _, _, _)
dead_from(body, i, unused, dead) ==
    IF i > Len(body) THEN dead
    ELSE LET instr   == body[i]
             unused0 == IF starts_block(body, i)
                        THEN [v \in DOMAIN unused |-> 0] ELSE unused
             unused1 == [v \in DOMAIN unused |->
                            IF v \in Range(instr.args) THEN 0 ELSE unused0[v]]
         IN  IF instr.dest = None
             THEN dead_from(body, i + 1, unused1, dead)
             ELSE dead_from(body, i + 1,
                            [unused1 EXCEPT ![instr.dest] = i],
                            IF unused1[instr.dest] # 0
                            THEN dead \cup {unused1[instr.dest]} ELSE dead)

\* A pass that removes every definition whose dest is assigned again later
\* in the list, whatever stands between the two.
remove_re_def(body) ==
    LET keep == SelectSeq([i \in 1..Len(body) |-> i], LAMBDA i :
                   body[i].dest = None
                   \/ \A j \in (i + 1)..Len(body) : body[j].dest # body[i].dest)
    IN  [m \in 1..Len(keep) |-> body[keep[m]]]

remove_re_def_with_no_use_between(body) ==
    LET dead == dead_from(body, 1, [v \in names_of(body, <<>>) |-> 0], {})
        keep == SelectSeq([i \in 1..Len(body) |-> i], LAMBDA i : i \notin dead)
    IN  [m \in 1..Len(keep) |-> body[keep[m]]]

\* pass_(instrs)
apply_pass(pass_, body) ==
    IF pass_ = "remove_def_with_no_use" THEN remove_def_with_no_use(body)
    ELSE remove_re_def_with_no_use_between(body)

\* The lists of passes of the commands tdce and tdce+.
tdce == <<"remove_def_with_no_use">>

tdce_plus == <<"remove_def_with_no_use", "remove_re_def_with_no_use_between">>

\* main: the test that ends the while loop of a pass.
converges(res, body) == Len(res) = Len(body)

\* One iteration that goes on to the next pass whatever the result.
TdceOnce ==
    /\ pc = "tdce"
    /\ passes.todo # <<>>
    /\ instrs' = apply_pass(Head(passes.todo), instrs)
    /\ passes' = [passes EXCEPT !.todo = Tail(@)]
    /\ UNCHANGED <<pc, round, first, cfgVars, domVars, dfVars, ssaVars,
                   outVars, table, leftmost>>

\* main: one iteration of the while loop.
TdceIteration ==
    /\ pc = "tdce"
    /\ passes.todo # <<>>
    /\ \E res \in {apply_pass(Head(passes.todo), instrs)} :
           IF converges(res, instrs)
           THEN /\ passes' = [passes EXCEPT !.todo = Tail(@)]
                /\ UNCHANGED instrs
           ELSE /\ instrs' = res
                /\ UNCHANGED passes
    /\ UNCHANGED <<pc, round, first, cfgVars, domVars, dfVars, ssaVars,
                   outVars, table, leftmost>>

\* main: every pass has converged; json.dump(prog)
TdceReturn ==
    /\ pc = "tdce"
    /\ passes.todo = <<>>
    /\ pc' = "dumped"
    /\ UNCHANGED <<instrs, round, first, cfgVars, domVars, dfVars, ssaVars,
                   outVars, optVars>>

\* The command is run again, on what it has written.
TdceAgain ==
    /\ pc = "dumped"
    /\ round = 1
    /\ first' = instrs
    /\ round' = 2
    /\ passes' = [passes EXCEPT !.todo = passes.main]
    /\ pc' = "tdce"
    /\ UNCHANGED <<instrs, cfgVars, domVars, dfVars, ssaVars, outVars, table, leftmost>>

NextTdce == TdceIteration \/ TdceReturn \/ TdceAgain

-----------------------------------------------------------------------------
(* Inputs of the dead-code specification: up to TdceLen instructions over  *)
(* a small alphabet, for each of the two commands.                         *)

TdceAlphabet ==
    { Const("x", IntV(1)), Const("y", IntV(2)),
      Op("id", "x", <<"y">>), Op("id", "y", <<"x">>),
      Output("x"), Output("z"), Label("l"), Ret }

InitTdce ==
    /\ instrs \in {b \in SeqsUpTo(TdceAlphabet, TdceLen) : DistinctLabels(b)}
    /\ \E main \in {tdce, tdce_plus} : passes = [main |-> main, todo |-> main]
    /\ source = instrs
    /\ pc = "tdce"
    /\ round = 1
    /\ first = <<>>
    /\ blocks = NoCfg
    /\ successors = NoCfg
    /\ predecessors = NoCfg
    /\ dom = NoCfg /\ tree = NoCfg /\ front = NoCfg
    /\ analysis = None /\ worklist = <<>> /\ ins = NoCfg /\ outs = NoCfg
    /\ func_args = <<>> /\ ssa_vars = <<>> /\ unrenamed = NoCfg
    /\ stack = <<>> /\ num = <<>> /\ frames = <<>> /\ at_end = <<>>
    /\ defs_to_add = <<>> /\ table = <<>> /\ leftmost = TRUE

SpecTdce == InitTdce /\ [][NextTdce]_vars

\* Inputs of tdce+ with an instruction that uses the variable it assigns.
RedefAlphabet ==
    { Const("x", IntV(1)), Op("id", "x", <<"x">>), Op("id", "y", <<"x">>),
      Output("x"), Label("l"), Ret }

InitRedef ==
    /\ instrs \in {b \in SeqsUpTo(RedefAlphabet, TdceLen) : DistinctLabels(b)}
    /\ passes = [main |-> tdce_plus, todo |-> tdce_plus]
    /\ source = instrs
    /\ pc = "tdce"
    /\ round = 1
    /\ first = <<>>
    /\ blocks = NoCfg
    /\ successors = NoCfg
    /\ predecessors = NoCfg
    /\ dom = NoCfg /\ tree = NoCfg /\ front = NoCfg
    /\ analysis = None /\ worklist = <<>> /\ ins = NoCfg /\ outs = NoCfg
    /\ func_args = <<>> /\ ssa_vars = <<>> /\ unrenamed = NoCfg
    /\ stack = <<>> /\ num = <<>> /\ frames = <<>> /\ at_end = <<>>
    /\ defs_to_add = <<>> /\ table = <<>> /\ leftmost = TRUE

SpecRedef == InitRedef /\ [][NextTdce]_vars

-----------------------------------------------------------------------------
(* Properties of CFG construction.                                         *)

BlockNames == Range(OdKeys(blocks))

Last(s) == s[Len(s)]

LacksTerminator(block) == block = <<>> \/ Last(block).op \notin TERMINATORS

\* The i-th block of the text, as form_blocks yields it: its name and body.
TextName(fb, i) ==
    IF fb[i][1].label # None
    THEN fb[i][1].label
    ELSE "b" \o ToString(Cardinality({j \in 1..(i - 1) : fb[j][1].label = None}))

TextBody(fb, i) == IF fb[i][1].label # None THEN Tail(fb[i]) ELSE fb[i]

\* Every block is non-empty and ends in a terminator.
TerminatorClosure ==
    pc \in {"named", "built"} =>
        \A i \in 1..Len(blocks) :
            blocks[i].v # <<>> /\ Last(blocks[i].v).op \in TERMINATORS

\* C1: after construction every block is non-empty and ends in jmp, br or
\* ret, and a block of the text that lacked a terminator is the same block
\* with a jmp to the textually next block appended, or a ret if it is the
\* last block of the text.
C1_TerminatorsAppended ==
    (pc = "built" /\ round = 1) =>
        /\ \A i \in 1..Len(blocks) :
               blocks[i].v # <<>> /\ Last(blocks[i].v).op \in TERMINATORS
        /\ LET fb == form_blocks(instrs) IN
           \A i \in 1..Len(fb) :
               LacksTerminator(TextBody(fb, i)) =>
                   /\ OdHas(blocks, TextName(fb, i))
                   /\ OdGet(blocks, TextName(fb, i)) =
                          Append(TextBody(fb, i),
                                 IF i = Len(fb) THEN Ret
                                 ELSE Jmp(TextName(fb, i + 1)))

\* C2: after construction, B is a successor of A exactly when A is a
\* predecessor of B, for all blocks A and B of the CFG.
C2_EdgeSymmetry ==
    pc = "built" =>
        \A A \in BlockNames, B \in BlockNames :
            (B \in Range(OdGet(successors, A)))
                <=> (A \in Range(OdGet(predecessors, B)))

\* C3: after construction the entry block has no predecessors; when the
\* first block of the text has predecessors, the entry is a synthetic
\* block holding a single jmp to it.
C3_EntryIsolation ==
    (pc = "built" /\ round = 1) =>
        LET named == name_blocks(form_blocks(instrs))
            orig  == entry_of(named)
        IN  /\ OdGet(predecessors, entry_of(blocks)) = <<>>
            /\ (\E i \in 1..Len(named) : orig \in Range(Last(named[i].v).labels))
                  => /\ blocks[1].v = <<Jmp(orig)>>
                     /\ blocks[1].k # orig
                     /\ Len(blocks) = Len(named) + 1

\* C8: the CFG built from the flattened first CFG has the same block names
\* in the same order and the same successors as the first CFG.
C8_FlattenRoundTrip ==
    (pc = "built" /\ round = 2) =>
        /\ OdKeys(blocks) = OdKeys(first.blocks)
        /\ \A n \in BlockNames :
               OdGet(successors, n) = OdGet(first.successors, n)

\* The round trip of a CFG that got a synthetic entry block.
C8_Witness ==
    /\ pc = "built" /\ round = 2
    /\ Len(blocks) >= 2
    /\ blocks[1].k = SyntheticEntry
    /\ blocks[1].v = <<Jmp(blocks[2].k)>>
    /\ Len(OdGet(predecessors, blocks[2].k)) >= 2

\* C20: when the first named block has predecessors, the step that builds
\* the CFG puts in front a block whose name is the name of no block that was
\* there before, and every block that was there before keeps its name, its
\* instructions and its successors.
C20_SyntheticEntryFresh ==
    [][(/\ pc = "named" /\ pc' = "built"
        /\ OdGet(find_predecessors(get_cfg(blocks)), entry_of(blocks)) # <<>>)
       => /\ blocks'[1].k \notin BlockNamesOf(blocks)
          /\ \A n \in BlockNamesOf(blocks) :
                 /\ OdHas(blocks', n)
                 /\ OdGet(blocks', n) = OdGet(blocks, n)
                 /\ OdGet(successors', n) = OdGet(get_cfg(blocks), n)]_vars

\* C21: name_blocks gives the blocks of form_blocks pairwise distinct names:
\* the named blocks are as many as the blocks formed, and each formed block
\* is found under its name with its own instructions (without its label) in
\* front of the terminator that add_terminators may append.
C21_BlockNamesDistinct ==
    pc = "named" =>
        LET formed == form_blocks(instrs) IN
        /\ Len(blocks) = Len(formed)
        /\ \A i \in 1..Len(formed) :
               LET own == IF is_label(formed[i][1]) THEN Tail(formed[i])
                          ELSE formed[i]
               IN  /\ Len(blocks[i].v) >= Len(own)
                   /\ SubSeq(blocks[i].v, 1, Len(own)) = own

-----------------------------------------------------------------------------
(* Properties of dominance.                                                *)

Succ(n) == Range(OdGet(successors, n))
Pred(n) == Range(OdGet(predecessors, n))

\* The blocks that a path from the entry reaches without entering `a`.
RECURSIVE avoiding(_, _)
avoiding(a, seen) ==
    LET more == (UNION {Succ(n) : n \in seen} \ {a}) \ seen
    IN  IF more = {} THEN seen ELSE avoiding(a, seen \cup more)

ReachableAvoiding(a) ==
    IF a = entry_of(blocks) THEN {} ELSE avoiding(a, {entry_of(blocks)})

\* A dominates B: every path from the entry to B passes through A.
Dominates(a, b) == a = b \/ b \notin ReachableAvoiding(a)

AllReachable == reach_from(successors, {entry_of(blocks)}) = BlockNames

DomDone == pc \in {"dom", "tree", "front"}

\* C5: when all blocks are reachable from the entry, get_dom gives for each
\* block B exactly the blocks that every path from the entry to B passes.
C5_DominatorsExact ==
    (DomDone /\ AllReachable) =>
        /\ DOMAIN dom = BlockNames
        /\ \A b \in BlockNames : dom[b] = {a \in BlockNames : Dominates(a, b)}

\* The diamond of the example: dom[c] = {entry, c}.
C5_Witness ==
    /\ DomDone
    /\ BlockNames = {"entry", "a", "b", "c"}
    /\ Succ("entry") = {"a", "b"} /\ Succ("a") = {"c"}
    /\ Succ("b") = {"c"} /\ Succ("c") = {}
    /\ dom["c"] = {"entry", "c"}

Count(list, x) == Cardinality({i \in 1..Len(list) : list[i] = x})

\* C6: every block B other than the entry has exactly one strict dominator
\* that all its strict dominators dominate; in dom_tree's result B is a
\* child of that block, once, and of no other, and the entry of none.
C6_ImmediateDominatorUnique ==
    pc \in {"tree", "front"} =>
        \A b \in BlockNames :
            LET strict == dom[b] \ {b}
                idoms  == {x \in strict : \A y \in strict : y \in dom[x]}
            IN  IF b = entry_of(blocks)
                THEN \A p \in BlockNames : Count(tree[p], b) = 0
                ELSE /\ Cardinality(idoms) = 1
                     /\ \A p \in BlockNames :
                           Count(tree[p], b) = IF p \in idoms THEN 1 ELSE 0

\* A tree of depth two: some block has a parent that is not the entry.
C6_Witness ==
    /\ pc = "tree"
    /\ \E p \in BlockNames, b \in BlockNames :
          /\ p # entry_of(blocks)
          /\ Count(tree[p], b) = 1
          /\ Cardinality(dom[b]) >= 3

IsSorted(list) ==
    \A i \in 1..(Len(list) - 1) :
        \E r1, r2 \in 1..Len(SortedNames) :
            /\ SortedNames[r1] = list[i] /\ SortedNames[r2] = list[i + 1]
            /\ r1 <= r2

DF(a) ==
    {c \in BlockNames :
        \E b \in Pred(c) : a \in dom[b] /\ (a \notin dom[c] \/ a = c)}

\* C7: dom_front gives for every block A a sorted list holding each block
\* of DF[A] exactly once and no other block.
C7_FrontierListedOnce ==
    pc = "front" =>
        \A a \in BlockNames :
            /\ IsSorted(front[a])
            /\ \A c \in BlockNames :
                  Count(front[a], c) = IF c \in DF(a) THEN 1 ELSE 0

-----------------------------------------------------------------------------
(* Properties of the data-flow solver.                                     *)

\* The flow values that meet at the boundary of block B where the analysis
\* enters it: the outs of its predecessors, or for the backward analysis
\* the ins of its successors (what _solve returns after the swap).
Incoming(B) ==
    LET succ == get_cfg(blocks)
        pred == df_find_predecessors(succ)
        from == IF flow_of(analysis) = "backward"
                THEN OdGet(succ, B) ELSE OdGet(pred, B)
    IN  [i \in 1..Len(from) |->
            IF flow_of(analysis) = "backward" THEN ins[from[i]]
            ELSE outs[from[i]]]

\* The worklist never reaches the cap of the model.
WorklistBelowCap == Len(worklist) < MaxWork

\* C4: when _solve returns, for every block B out[B] is the transfer of B
\* applied to the merge of the outs of B's predecessors and in[B] is that
\* merge; for the backward analysis in[B] is the transfer of B applied to
\* the merge of the ins of B's successors and out[B] is that merge.
C4_DataflowFixedPoint ==
    pc = "done" =>
        /\ DOMAIN ins = BlockNames /\ DOMAIN outs = BlockNames
        /\ \A B \in BlockNames :
              IF flow_of(analysis) = "backward"
              THEN /\ outs[B] = merge(analysis, Incoming(B))
                   /\ ins[B] = transfer(analysis, OdGet(blocks, B), outs[B])
              ELSE /\ ins[B] = merge(analysis, Incoming(B))
                   /\ outs[B] = transfer(analysis, OdGet(blocks, B), ins[B])

\* The backward analysis has returned on a CFG with a loop, and a variable
\* is live around the loop.
C4_Witness ==
    /\ pc = "done"
    /\ analysis = "live"
    /\ \E B \in BlockNames :
          /\ B \in Range(OdGet(get_cfg(blocks), B))
          /\ Len(OdGet(get_cfg(blocks), B)) = 2
          /\ "x" \in ins[B] /\ "x" \in outs[B]
          /\ \E A \in BlockNames : "x" \notin ins[A]

\* C15: when the constant propagation has been solved, in[B] of a block with
\* several predecessors holds every key that the out of some predecessor
\* holds, with the value on which the predecessors that hold it agree, and
\* with UNKNOWN when they differ.
C15_CpropMergeKeepsKeys ==
    (pc = "done" /\ analysis = "cprop") =>
        \A B \in BlockNames :
            Len(Incoming(B)) >= 2 => ins[B] = cprop_merge(Incoming(B))

\* C22: whatever the order in which the blocks are popped from the worklist,
\* the solver returns the in and out maps that it returns when it pops from
\* the left, for each of the three analyses.
C22_PopOrderIndependent ==
    pc = "done" =>
        \E r \in {solve(analysis, instrs)} :
            r.ended /\ ins = r.ins /\ outs = r.outs

\* A constant propagation over a function whose first block has a
\* predecessor has returned after a pop that did not take the leftmost block.
C22_Witness ==
    /\ pc = "done" /\ ~leftmost
    /\ analysis = "cprop"
    /\ OdGet(predecessors, blocks[1].k) # <<>>
    /\ \E n \in BlockNamesOf(blocks) : outs[n] # EmptyDict

\* C23: once _solve has entered its worklist loop, the worklist is empty at
\* some later point, for each of the three analyses and every function of
\* the data-flow specification.
C23_WorklistEmpties ==
    (pc = "loop") ~> (worklist = <<>>)

\* The solver has returned for a function whose first block has a
\* predecessor and in which some block lies on a cycle through another one.
C23_Witness ==
    /\ pc = "done"
    /\ OdGet(predecessors, blocks[1].k) # <<>>
    /\ \E n \in BlockNamesOf(blocks) : n # blocks[1].k
           /\ n \in Range(OdGet(successors, blocks[1].k))
           /\ blocks[1].k \in Range(OdGet(successors, n))

\* The constant that the instructions in front of the last one give to v,
\* UNKNOWN when there is none.
KnownBefore(v) ==
    LET at == {i \in 1..(Len(instrs) - 1) :
                  instrs[i].op = "const" /\ instrs[i].dest = v}
    IN  IF at = {} THEN UNKNOWN ELSE instrs[CHOOSE i \in at : TRUE].value

\* C26: in the out map of the block, the dest of the last instruction holds
\* UNKNOWN for a div by a known 0; true for eq, le, ge and false for lt, gt
\* of one operand twice; false for an and with an operand known false; true
\* for an or with an operand known true; otherwise the value of the op when
\* every operand is a known constant, and UNKNOWN when one is not.
C26_FoldRules ==
    pc = "done" =>
        LET last  == instrs[Len(instrs)]
            op    == last.op
            vals  == [i \in 1..Len(last.args) |-> KnownBefore(last.args[i])]
            known == \A i \in 1..Len(vals) : vals[i] # UNKNOWN
            got   == outs[blocks[1].k][last.dest]
        IN  IF op = "div" /\ vals[2] = IntV(0) THEN got = UNKNOWN
            ELSE IF op \in {"eq", "le", "ge"} /\ last.args[1] = last.args[2]
            THEN got = BoolV(TRUE)
            ELSE IF op \in {"lt", "gt"} /\ last.args[1] = last.args[2]
            THEN got = BoolV(FALSE)
            ELSE IF op = "and" /\ BoolV(FALSE) \in Range(vals)
            THEN got = BoolV(FALSE)
            ELSE IF op = "or" /\ BoolV(TRUE) \in Range(vals)
            THEN got = BoolV(TRUE)
            ELSE IF known THEN got = EVAL_OPS(op, vals)
            ELSE got = UNKNOWN

\* A division of an unknown by a known 0, or a comparison of an unknown
\* operand with itself.
C26_Witness ==
    /\ pc = "done"
    /\ \/ /\ instrs = << Const("y", IntV(0)), Op("div", "x", <<"x", "y">>) >>
          /\ outs["b0"]["x"] = UNKNOWN
       \/ /\ instrs = << Op("le", "y", <<"x", "x">>) >>
          /\ outs["b0"]["y"] = BoolV(TRUE)

-----------------------------------------------------------------------------
(* Properties of SSA construction.                                         *)

\* No two instructions of the function share a dest.
DestsDistinct ==
    pc = "ssa" =>
        LET is == all_instrs(blocks) IN
        \A i, j \in 1..Len(is) :
            (i # j /\ is[i].dest # None) => is[i].dest # is[j].dest

\* C9: after to_ssa no two instructions, phi or not, share a dest, and no
\* instruction's dest is the name of a function argument.
C9_SingleAssignment ==
    pc = "ssa" =>
        LET is == all_instrs(blocks) IN
        /\ \A i, j \in 1..Len(is) :
              (i # j /\ is[i].dest # None) => is[i].dest # is[j].dest
        /\ \A i \in 1..Len(is) :
              is[i].dest # None => is[i].dest \notin Range(func_args)

\* The name on top of v's stack at the end of block P, or v.undef.
NameAtEnd(P, v) ==
    IF at_end[P][v] = <<>> THEN v \o ".undef" ELSE TopOf(at_end[P], v)

FrontierOf(a) ==
    {c \in BlockNames :
        /\ \E b \in Pred(c) : Dominates(a, b)
        /\ ~(Dominates(a, c) /\ a # c)}

\* The iterated dominance frontier of a set of blocks.
RECURSIVE IDF(_, _)
IDF(S, acc) ==
    LET more == UNION {FrontierOf(a) : a \in S \cup acc} \ acc
    IN  IF more = {} THEN acc ELSE IDF(S, acc \cup more)

\* The blocks that define v: those that hold an instruction other than a
\* phi with dest v, and the entry when v is a function argument.
DefBlocks(v) ==
    {B \in BlockNames :
        \E m \in 1..Len(OdGet(blocks, B)) :
            ~is_phi(OdGet(blocks, B)[m]) /\ OdGet(blocks, B)[m].dest = v}
    \cup (IF v \in Range(func_args) THEN {entry_of(blocks)} ELSE {})

PhisFor(B, v) ==
    {m \in 1..Len(OdGet(blocks, B)) :
        is_phi(OdGet(blocks, B)[m]) /\ OdGet(blocks, B)[m].dest = v}

\* C11: after insert_phi_nodes a block holds exactly one phi for v when it
\* is in the iterated dominance frontier of the blocks that define v (the
\* entry counts for a function argument) and none otherwise, and the phis
\* of a block stand before its other instructions.
C11_PhiPlacement ==
    pc = "phis" =>
        /\ \A v \in Range(ssa_vars) \cup Range(func_args) :
              \A B \in BlockNames :
                 Cardinality(PhisFor(B, v)) =
                     IF B \in IDF(DefBlocks(v), {}) THEN 1 ELSE 0
        /\ \A B \in BlockNames :
              \A m \in 1..Len(OdGet(blocks, B)) :
                 is_phi(OdGet(blocks, B)[m]) =>
                    /\ OdGet(blocks, B)[m].dest \in Range(ssa_vars)
                    /\ \A k \in 1..(m - 1) : is_phi(OdGet(blocks, B)[k])

\* The stacks rename_variable starts with: an argument's own name, else none.
SeededStack ==
    [v \in Range(ssa_vars) \cup Range(func_args) |->
        IF v \in Range(func_args) THEN <<v>> ELSE <<>>]

\* The stacks the caller of the innermost running rename_recur holds while
\* it loops over its children: those left by its own instructions, or the
\* seeded ones for the call on the entry block.
CallerStack(fs) ==
    IF fs[Len(fs)].block = None THEN SeededStack
    ELSE at_end[fs[Len(fs)].block]

\* The names a call of rename_recur on block B finds on the stacks: an
\* argument's own name, or the dest of an instruction of a block that runs
\* a call now and that dominates B without being B.
FromDominators(B) ==
    \A v \in DOMAIN stack : \A k \in 1..Len(stack[v]) :
        \/ v \in Range(func_args) /\ stack[v][k] = v
        \/ \E j \in 2..Len(frames) :
              /\ frames[j].block # B
              /\ Dominates(frames[j].block, B)
              /\ \E m \in 1..Len(OdGet(blocks, frames[j].block)) :
                    OdGet(blocks, frames[j].block)[m].dest = stack[v][k]

\* C28: when rename_recur returns for a block, every variable's stack has
\* exactly the contents it had when rename_recur was entered for that block:
\* a call is entered with the stacks its caller holds, whose names come from
\* definitions in blocks that dominate the block, and its return hands the
\* same stacks back, so that after the whole traversal the stacks are the
\* seeded ones again.
C28_StacksRestored ==
    [][(pc = "rename" /\ pc' = "rename") =>
          /\ Len(frames') = Len(frames) + 1 =>
                /\ stack = CallerStack(frames)
                /\ FromDominators(frames'[Len(frames')].block)
          /\ Len(frames') = Len(frames) - 1 => stack' = CallerStack(frames')]_vars

\* The traversal is over, it renamed definitions of x and of y in blocks
\* below the entry block, and the stacks are the seeded ones.
C28_Witness ==
    /\ pc = "rename"
    /\ Len(frames) = 1
    /\ frames[1].next > Len(children(frames[1]))
    /\ func_args = <<"x">>
    /\ \A v \in DOMAIN num : num[v] > 0
    /\ \E B \in DOMAIN at_end : at_end[B] # SeededStack
    /\ stack = SeededStack

-----------------------------------------------------------------------------
(* Properties of the SSA round trip.  An execution of a function follows   *)
(* the reference interpreter: the observable behaviour is the list of      *)
(* printed values and the way the run ends.                                *)

\* The position of the label marker l.
LabelPos(prog, l) ==
    CHOOSE i \in 1..Len(prog) :
        /\ is_label(prog[i]) /\ prog[i].label = l
        /\ \A j \in 1..(i - 1) : ~(is_label(prog[j]) /\ prog[j].label = l)

Observed(out, end) == [out |-> out, end |-> end]

\* A callee is a function of its arguments.
CallValue(f, vals) == IntV(50 + (IF vals = <<>> THEN 0 ELSE vals[1].n))

\* The value an instruction with a dest computes from the values vals of
\* its arguments.
result(instr, vals) ==
    IF instr.op = "const" THEN instr.value
    ELSE IF \E m \in 1..Len(vals) : vals[m] = Absent THEN Absent
    ELSE IF instr.op = "id" THEN vals[1]
    ELSE IF instr.op \in EvalOps THEN EVAL_OPS(instr.op, vals)
    ELSE CallValue(instr.funcs, vals)

\* The run from instruction i with the variables env, having printed out,
\* for at most fuel instructions.  Reading a variable that holds nothing,
\* and branching on a value that is no bool, is an error.
RECURSIVE exec(_, _, _, _, _)
exec(prog, i, env, out, fuel) ==
    IF i > Len(prog) THEN Observed(out, "ret")
    ELSE IF is_label(prog[i]) THEN exec(prog, i + 1, env, out, fuel)
    ELSE IF fuel = 0 THEN Observed(out, "more")
    ELSE LET instr == prog[i]
             vals  == [m \in 1..Len(instr.args) |-> env[instr.args[m]]]
         IN  IF \E m \in 1..Len(vals) : vals[m] = Absent
             THEN Observed(out, "error")
             ELSE IF instr.dest # None
             THEN exec(prog, i + 1,
                       [env EXCEPT ![instr.dest] = result(instr, vals)],
                       out, fuel - 1)
             ELSE IF instr.op = "print"
             THEN exec(prog, i + 1, env, out \o vals, fuel - 1)
             ELSE IF instr.op = "jmp"
             THEN exec(prog, LabelPos(prog, instr.labels[1]), env, out,
                       fuel - 1)
             ELSE IF instr.op = "br"
             THEN IF vals[1].t # "bool" THEN Observed(out, "error")
                  ELSE exec(prog,
                            LabelPos(prog, instr.labels[IF vals[1].n = 1
                                                        THEN 1 ELSE 2]),
                            env, out, fuel - 1)
             ELSE IF instr.op = "ret" THEN Observed(out, "ret")
             ELSE exec(prog, i + 1, env, out, fuel - 1)

\* The run of a function on the argument values vals.
Run(prog, func_args_, vals) ==
    exec(prog, 1,
         [v \in names_of(prog, func_args_) |->
             IF \E m \in 1..Len(func_args_) : func_args_[m] = v
             THEN vals[CHOOSE m \in 1..Len(func_args_) : func_args_[m] = v]
             ELSE Absent],
         <<>>, Fuel)

IsPrefix(s, t) == Len(s) <= Len(t) /\ SubSeq(t, 1, Len(s)) = s

\* What was seen of a run of the rewritten function agrees with what was
\* seen of the run of the given one, which raised no error.  The rewritten
\* function executes at least the instructions of the given one.
SameBehaviour(given, rewritten) ==
    given.end # "error" =>
        /\ rewritten.end # "error"
        /\ IsPrefix(rewritten.out, given.out)
        /\ rewritten.end = "ret" => (given.end = "ret"
                                     /\ given.out = rewritten.out)

ArgValues == [1..1 -> {BoolV(TRUE), BoolV(FALSE)}]

\* C12: after to_ssa and then out_ssa, every execution of the function
\* prints what the given function prints and ends as it ends.
C12_RoundTripBehaviour ==
    pc = "out" =>
        \A vals \in ArgValues :
            SameBehaviour(Run(source, func_args, vals),
                          Run(instrs, func_args, vals))

-----------------------------------------------------------------------------
(* Properties of local value numbering.                                    *)

\* The instructions at i and j, i < j, are of the same basic block.
SameBlock(body, i, j) == \A k \in (i + 1)..j : ~starts_block(body, k)

\* The positions of the last assignment of each variable in each block.
LastAssignments(body) ==
    {i \in 1..Len(body) :
        /\ body[i].dest # None
        /\ \A j \in (i + 1)..Len(body) :
              SameBlock(body, i, j) => body[j].dest # body[i].dest}

\* The variables after the instructions i..n of a list without jumps.
RECURSIVE env_after(_, _, _, _)
env_after(prog, i, n, env) ==
    IF i > n THEN env
    ELSE IF prog[i].dest = None THEN env_after(prog, i + 1, n, env)
    ELSE env_after(prog, i + 1, n,
             [env EXCEPT ![prog[i].dest] =
                 result(prog[i],
                        [m \in 1..Len(prog[i].args) |-> env[prog[i].args[m]]])])

\* The variables at the head of the function: every name of the inputs
\* holds a value, a name that lvn makes holds none.
LvnEnv(va, vb) ==
    [v \in Range(LvnNames) \cup names_of(instrs, <<>>) |->
        IF v = "a" THEN IntV(va)
        ELSE IF v = "b" THEN IntV(vb)
        ELSE IF v \in Range(LvnNames)
        THEN IntV(10 * CHOOSE r \in 1..Len(LvnNames) : LvnNames[r] = v)
        ELSE Absent]

\* The instructions lvn has rewritten to id, calls apart.
RewrittenToId ==
    {j \in 1..(table.i - 1) :
        /\ instrs[j].op = "id"
        /\ source[j].op \notin {"id", "call", "const"}}

\* C13: for every instruction without side effects that lvn rewrote to
\* x = id c, on every execution the value the given instruction computes
\* for x is the value c holds at that point of the rewritten function.
C13_LvnSound ==
    pc \in {"lvn", "dumped"} =>
        \A j \in RewrittenToId : \A va, vb \in 1..2 :
            env_after(source, 1, j, LvnEnv(va, vb))[source[j].dest]
                = env_after(instrs, 1, j - 1, LvnEnv(va, vb))[instrs[j].args[1]]

\* C17: an instruction with op call is never rewritten to id.
C17_CallsKept ==
    pc \in {"lvn", "dumped"} =>
        \A j \in 1..Len(instrs) : source[j].op = "call" => instrs[j].op = "call"

\* The instruction at j repeats the instruction at k of its block: the same
\* op on the same arguments, none of them assigned from k to j - 1.
Repeats(k, j) ==
    /\ k < j
    /\ \A m \in (k + 1)..j : ~starts_block(source, m)
    /\ source[j].dest # None
    /\ source[j].op \notin {"const", "call"}
    /\ source[k].dest # None
    /\ source[k].op = source[j].op
    /\ source[k].args = source[j].args
    /\ \A m \in k..(j - 1) : source[m].dest \notin Range(source[j].args)

C24_RenamedThroughReassignment ==
    [][LET i     == table.i
           old   == instrs[i].dest
           last  == block_end(instrs, i)
           again == {j \in (i + 1)..last : instrs[j].dest = old}
           j     == CHOOSE j \in again : \A k \in again : j <= k
           n     == IF starts_block(instrs, i) THEN 0 ELSE table.lvn_number
           new   == old \o "." \o ToString(n)
       IN  (/\ pc = "lvn" /\ i <= Len(instrs) /\ table'.i = i + 1
            /\ old # None /\ ~table'.hit /\ again # {})
           => /\ instrs'[i].dest = new
              /\ table'.lvn_number = n + 1
              /\ \A m \in (i + 1)..j :
                     /\ instrs'[m].args =
                            [k \in 1..Len(instrs[m].args) |->
                                IF instrs[m].args[k] = old THEN new
                                ELSE instrs[m].args[k]]
                     /\ instrs'[m].dest = instrs[m].dest
              /\ \A m \in (j + 1)..Len(instrs) : instrs'[m] = instrs[m]]_vars

\* Two renamings in one block: x = const 1; y = id x; x = sub a b;
\* x = add a b has become x.0 = const 1; y = id x.0; x.1 = sub a b; ...
C24_Witness ==
    /\ pc = "lvn" /\ table.i = 4
    /\ source = << Const("x", IntV(1)), Op("id", "y", <<"x">>),
                   Op("sub", "x", <<"a", "b">>), Op("add", "x", <<"a", "b">>) >>
    /\ instrs[1].dest = "x.0"
    /\ instrs[2].args = <<"x.0">>
    /\ instrs[3].dest = "x.1"
    /\ table.lvn_number = 2

Renamed == {i \in 1..Len(instrs) : instrs[i].dest # source[i].dest}

\* The instruction of the given block that assigns the dest of i again.
Reassignment(i) ==
    CHOOSE j \in (i + 1)..Len(source) :
        /\ source[j].dest = source[i].dest
        /\ \A k \in (i + 1)..(j - 1) : source[k].dest # source[i].dest

\* The first positions of the blocks.
BlockStarts(body) == {i \in 1..Len(body) : starts_block(body, i)}

\* C30: lvn never renames the last assignment of a variable in a block;
\* every name it introduces is assigned only before the reassignment of the
\* variable it stands for and occurs only in that block; and at the end of
\* every block every variable of the given function holds the value it
\* held there before the pass.
C30_LastAssignmentKept ==
    pc = "dumped" =>
        /\ \A i \in LastAssignments(source) : instrs[i].dest = source[i].dest
        /\ \A i \in Renamed : \A k \in 1..Len(instrs) :
              /\ (instrs[k].dest = instrs[i].dest
                      \/ instrs[i].dest \in Range(instrs[k].args)) =>
                    /\ k >= i => SameBlock(source, i, k)
                    /\ k < i => SameBlock(source, k, i)
              /\ instrs[k].dest = instrs[i].dest =>
                    (i <= k /\ k < Reassignment(i))
        /\ \A s \in BlockStarts(source) :
           \A v \in names_of(source, <<>>) : \A va, vb \in 1..2 :
              env_after(instrs, s, block_end(source, s), LvnEnv(va, vb))[v]
                 = env_after(source, s, block_end(source, s), LvnEnv(va, vb))[v]

-----------------------------------------------------------------------------
(* Properties of dead-code elimination.                                    *)

\* C14: tdce applied to its own output returns the instruction list
\* unchanged.
C14_TdceIdempotent ==
    (pc = "dumped" /\ round = 2 /\ passes.main = tdce) => instrs = first

C14_Witness ==
    /\ pc = "dumped" /\ round = 2 /\ passes.main = tdce
    /\ Len(first) < Len(source)
    /\ instrs = first

\* C18: in the output of tdce every instruction with a dest has that dest
\* among the args of some instruction of the output.
C18_NoDeadDefinition ==
    (pc = "dumped" /\ passes.main = tdce) =>
        \A i \in 1..Len(instrs) :
            instrs[i].dest # None => instrs[i].dest \in used_of(instrs)

\* C19: in the output of tdce+ neither of the two passes removes an
\* instruction.
C19_TdcePlusFixedPoint ==
    (pc = "dumped" /\ passes.main = tdce_plus) =>
        /\ remove_def_with_no_use(instrs) = instrs
        /\ remove_re_def_with_no_use_between(instrs) = instrs

\* The positions of the definitions that a later instruction of the same
\* block assigns again, with no use of the variable strictly between the
\* two nor in the later one.
Reassigned(body) ==
    {i \in 1..Len(body) :
        /\ body[i].dest # None
        /\ \E j \in (i + 1)..Len(body) :
              /\ SameBlock(body, i, j)
              /\ body[j].dest = body[i].dest
              /\ \A k \in (i + 1)..j : body[i].dest \notin Range(body[k].args)}

\* body without the instructions at the positions D.
Without(body, D) ==
    LET keep == SelectSeq([i \in 1..Len(body) |-> i], LAMBDA i : i \notin D)
    IN  [m \in 1..Len(keep) |-> body[keep[m]]]

\* C29: an iteration of remove_re_def_with_no_use_between removes an
\* instruction only if a later instruction of the same basic block assigns
\* the same dest and no instruction strictly between them, nor the later
\* one, has the variable among its args; the last assignment of a variable
\* in a block is never removed.
C29_OnlyUnusedRedefinitions ==
    [][(pc = "tdce" /\ pc' = "tdce" /\ round' = round /\ passes.todo # <<>>
        /\ Head(passes.todo) = "remove_re_def_with_no_use_between") =>
          \E D \in SUBSET Reassigned(instrs) :
              /\ D \cap LastAssignments(instrs) = {}
              /\ instrs' = Without(instrs, D)]_vars

\* x = const 1; x = id x; x = const 1; print x after one iteration of the
\* pass: x = id x, assigned again with no use, was removed; the first,
\* which x = id x uses, and the last assignment were not.
C29_Witness ==
    /\ pc = "tdce" /\ round = 1
    /\ passes.todo = <<"remove_re_def_with_no_use_between">>
    /\ source = << Const("x", IntV(1)), Op("id", "x", <<"x">>),
                   Const("x", IntV(1)), Output("x") >>
    /\ instrs = << Const("x", IntV(1)), Const("x", IntV(1)), Output("x") >>

-----------------------------------------------------------------------------
(* Properties of the live-variables analysis, stated on the instruction    *)
(* list: the paths of the function run from instruction to instruction.    *)

\* The positions that control reaches next from position i.
InstrSucc(body, i) ==
    IF body[i].op \in {"jmp", "br"}
    THEN {LabelPos(body, l) : l \in Range(body[i].labels)}
    ELSE IF body[i].op = "ret" \/ i = Len(body) THEN {}
    ELSE {i + 1}

\* The positions from which some path reaches a use of v that no
\* assignment of v precedes: U grows by the positions that do not assign v
\* and have a successor in U.
RECURSIVE used_before_assigned(_, _, _)
used_before_assigned(body, v, U) ==
    LET more == {p \in (1..Len(body)) \ U :
                    body[p].dest # v /\ InstrSucc(body, p) \cap U # {}}
    IN  IF more = {} THEN U ELSE used_before_assigned(body, v, U \cup more)

LiveAt(body, v) ==
    used_before_assigned(body, v,
        {p \in 1..Len(body) : v \in Range(body[p].args)})

VarsOf(body) == UNION {Range(body[p].args) : p \in 1..Len(body)}

\* The position of the first instruction of the i-th block of the text.
RECURSIVE TextStart(_, _)
TextStart(fb, i) == IF i = 1 THEN 1 ELSE TextStart(fb, i - 1) + Len(fb[i - 1])

\* C27: when the live-variables analysis has returned, for every block B of
\* the function in[B] is the set of the variables v for which some path from
\* the first instruction of B reaches an instruction with v among its args
\* before any instruction that assigns v.
C27_LiveIsUsedBeforeAssigned ==
    (pc = "done" /\ analysis = "live") =>
        LET fb == form_blocks(instrs) IN
        \A i \in 1..Len(fb) :
            /\ TextName(fb, i) \in DOMAIN ins
            /\ ins[TextName(fb, i)] =
                   {v \in VarsOf(instrs) : TextStart(fb, i) \in LiveAt(instrs, v)}

====
